---- MODULE Spec2Model ----
(***************************************************************************)
(* A model of the fvq codec core: the binary arithmetic coder              *)
(* (src/encode/arithmetic.rs), the packed bit string (src/encode/bits.rs), *)
(* the quadtree Path (src/quad.rs) and the Haar kernel                     *)
(* (src/transform/haar.rs).                                                *)
(*                                                                         *)
(* Each component has its own specification over the shared variables:     *)
(*   SpecInterval  Interval::contains / Interval::split as pure functions  *)
(*   SpecCoder     Writer, BitWriter, BitReader, Reader                    *)
(*   SpecBits      BitString push / pop / iter                             *)
(*   SpecPath      Path push / pop / len                                   *)
(*   SpecHaar      Haar::transform                                         *)
(***************************************************************************)
EXTENDS Integers, Sequences, FiniteSets, TLC

VARIABLES
    overflow_checks, \* build profile: TRUE = arithmetic overflow panics (debug),
                     \* FALSE = it wraps (release)
    iv_a,            \* SpecInterval: the Interval `self`
    iv_b,            \* SpecInterval: the Interval `other`
    iv_model,        \* SpecInterval: the Split handed to split
    iv_out,          \* SpecInterval: what the last call returned
    stage,           \* SpecCoder: where the encode/decode session is
    writer,          \* SpecCoder: Writer {inner: BitWriter, unfair, middle_count}
    stream,          \* SpecCoder: the bytes the BitWriter's sink has received
    reader,          \* SpecCoder: Reader {inner: BitReader, unfair, fair}
    sent,            \* SpecCoder: the (model, data) pairs written so far
    received,        \* SpecCoder: what each Reader::read returned so far
    last,            \* SpecCoder: what the last call did
    panic,           \* SpecCoder: "" or the assertion/overflow that aborted
    bs,              \* SpecBits: BitString {words, last_word, bit}
    bv,              \* SpecBits: the list of booleans bs stands for
    bs_last,         \* SpecBits: what the last call returned
    path,            \* SpecPath: Path(u32)
    stack,           \* SpecPath: the stack of selectors path stands for
    path_last,       \* SpecPath: what the last call returned
    haar,            \* SpecHaar: the tile h
    haar_t,          \* SpecHaar: h.transform()
    haar_tt,         \* SpecHaar: h.transform().transform()
    pyr_in,          \* SpecPyramid: [order, is_smooth, pixels] given to from_pixels
    pyramid,         \* SpecPyramid: Pyramid {low, highs}
    pyr_last,        \* SpecPyramid: what the last call did and returned
    bcc,             \* SpecBCC: the ShiftedBCC last made
    chain,           \* SpecBCC: the Chain last made
    bcc_last,        \* SpecBCC: what the last call did and returned
    cbrt_up,         \* build: TRUE = f32::cbrt returns the f32 above the root,
                     \* FALSE = the f32 at or below it
    digital,         \* SpecQuantizer: [order, low, tree], the digital tree given
    analogue,        \* SpecQuantizer: the tree from_digital returned
    quant_last       \* SpecQuantizer: what the last call did and returned

interval_vars == <<iv_a, iv_b, iv_model, iv_out>>
coder_vars == <<stage, writer, stream, reader, sent, received, last, panic>>
bits_vars == <<bs, bv, bs_last>>
path_vars == <<path, stack, path_last>>
haar_vars == <<haar, haar_t, haar_tt>>
pyramid_vars == <<pyr_in, pyramid, pyr_last>>
bcc_vars == <<bcc, chain, bcc_last>>
quant_vars == <<cbrt_up, digital, analogue, quant_last>>
rest_vars == <<pyramid_vars, bcc_vars, quant_vars>>
vars == <<overflow_checks, interval_vars, coder_vars, bits_vars, path_vars, haar_vars,
          rest_vars>>

(***************************************************************************)
(* Machine integers.  TLC's integers are 32-bit signed, so a u32 or a u64  *)
(* is held as its little-endian base-2^16 limbs: two limbs for a u32, four *)
(* for a u64.  An arithmetic expression is evaluated on records            *)
(* [val |-> the wrapped limbs, of |-> whether an operation overflowed on   *)
(* the way], so that one evaluation gives both what a release build        *)
(* computes (val) and whether a debug build panics (of).                   *)
(***************************************************************************)
Base == 2^16

\* Propagate carries (or borrows) through the column sums cols[i..]; the
\* last element of the result is the carry out of the top limb.
RECURSIVE Carry(_, _, _)
Carry(cols, i, c) ==
    IF i > Len(cols) THEN <<c>>
    ELSE <<(cols[i] + c) % Base>> \o Carry(cols, i + 1, (cols[i] + c) \div Base)

\* The limbs of a number n < 2^31 as a u32 and as a u64.
U32(n) == <<n % Base, n \div Base>>
U64(n) == <<n % Base, n \div Base, 0, 0>>

\* The limbs of 2^e as k limbs.
Pow2(e, k) ==
    SubSeq([i \in 1..k |-> IF i = (e \div 16) + 1 THEN 2^(e % 16) ELSE 0], 1, k)

\* u32::MAX.
MAX == <<Base - 1, Base - 1>>

\* A value that no overflow has touched.
Num(limbs) == [of |-> FALSE, val |-> limbs]

\* The result of an operation from the overflow flag of its operands and
\* its carried columns r.
Wrap(of, r) == [of |-> of \/ r[Len(r)] # 0, val |-> SubSeq(r, 1, Len(r) - 1)]

\* The limbs of x + y and of x - y, followed by the carry out (the borrow is
\* a carry of -1).
Sum(x, y) == Carry(SubSeq([i \in 1..Len(x) |-> x[i] + y[i]], 1, Len(x)), 1, 0)
Diff(x, y) == Carry(SubSeq([i \in 1..Len(x) |-> x[i] - y[i]], 1, Len(x)), 1, 0)

\* a + b.
Add(a, b) ==
    [of |-> \/ a.of \/ b.of \/ Sum(a.val, b.val)[Len(a.val) + 1] # 0,
     val |-> SubSeq(Sum(a.val, b.val), 1, Len(a.val))]

\* a - b.
Sub(a, b) ==
    [of |-> \/ a.of \/ b.of \/ Diff(a.val, b.val)[Len(a.val) + 1] # 0,
     val |-> SubSeq(Diff(a.val, b.val), 1, Len(a.val))]

\* The product of two limbs as <<low limb, high limb>>, computed through
\* the bytes of x so that no intermediate reaches 2^31.
LimbMul(x, y) ==
    IF x = 0 \/ y = 0 THEN <<0, 0>>
    ELSE LET t == (x % 256) * y
             u == (x \div 256) * y
             s == t + (u % 256) * 256
         IN  <<s % Base, (u \div 256) + (s \div Base)>>

\* a * b for u32s.
Mul32(a, b) ==
    LET p11 == LimbMul(a.val[1], b.val[1])
        p12 == LimbMul(a.val[1], b.val[2])
        p21 == LimbMul(a.val[2], b.val[1])
    IN  Wrap(\/ a.of \/ b.of
             \/ p12[2] # 0 \/ p21[2] # 0 \/ (a.val[2] # 0 /\ b.val[2] # 0),
             Carry(<<p11[1], p11[2] + p12[1] + p21[1]>>, 1, 0))

\* a * b for u64s.
Mul64(a, b) ==
    LET p11 == LimbMul(a.val[1], b.val[1])
        p12 == LimbMul(a.val[1], b.val[2])
        p13 == LimbMul(a.val[1], b.val[3])
        p14 == LimbMul(a.val[1], b.val[4])
        p21 == LimbMul(a.val[2], b.val[1])
        p22 == LimbMul(a.val[2], b.val[2])
        p23 == LimbMul(a.val[2], b.val[3])
        p31 == LimbMul(a.val[3], b.val[1])
        p32 == LimbMul(a.val[3], b.val[2])
        p41 == LimbMul(a.val[4], b.val[1])
    IN  Wrap(\/ a.of \/ b.of
             \/ p14[2] # 0 \/ p23[2] # 0 \/ p32[2] # 0 \/ p41[2] # 0
             \/ (a.val[2] # 0 /\ b.val[4] # 0) \/ (a.val[3] # 0 /\ b.val[3] # 0)
             \/ (a.val[4] # 0 /\ b.val[2] # 0) \/ (a.val[3] # 0 /\ b.val[4] # 0)
             \/ (a.val[4] # 0 /\ b.val[3] # 0) \/ (a.val[4] # 0 /\ b.val[4] # 0),
             Carry(<<p11[1],
                     p11[2] + p12[1] + p21[1],
                     p12[2] + p21[2] + p13[1] + p22[1] + p31[1],
                     p13[2] + p22[2] + p31[2] + p14[1] + p23[1] + p32[1] + p41[1]>>,
                   1, 0))

\* a < b and a <= b on limbs.
Lt(a, b) ==
    \E i \in 1..Len(a) : a[i] < b[i] /\ \A j \in (i + 1)..Len(a) : a[j] = b[j]

Le(a, b) == a = b \/ Lt(a, b)

\* `x as u64` of a u32, and `x as u32` of a u64, on limbs.
AsU64(a) == a \o <<0, 0>>
AsU32(x) == SubSeq(x, 1, 2)

(***************************************************************************)
(* src/encode/arithmetic.rs: Split and Interval.                           *)
(***************************************************************************)
SCALE == Pow2(32, 4)

\* SCALE / 2.
HALF == Pow2(31, 4)

\* (x / SCALE) as u32.
High(x) == [of |-> x.of, val |-> SubSeq(x.val, 3, 4)]

\* A faulty divide_by_scale, to see which properties tell it apart: nudge is
\* taken to be 1, which rounds a tie up instead of to even.
divide_by_scale_half_up(x) == High(Add(x, Num(HALF)))

\* Divide by SCALE rounding to even; nudge is (x / SCALE) & 1.
divide_by_scale(x) ==
    High(Add(Add(x, Sub(Num(HALF), Num(U64(1)))), Num(U64(x.val[3] % 2))))

\* !3 as a u32.
NOT3 == <<Base - 4, Base - 1>>

\* Split::new_inner: p1 is clamped into [4, !3].
new_inner(p1) ==
    LET lo == IF Lt(NOT3, p1) THEN NOT3 ELSE p1
    IN  [p1 |-> IF Lt(lo, U32(4)) THEN U32(4) ELSE lo]

Interval(below, above) == [below |-> below, above |-> above]

\* Interval::new: [ok |-> whether the assertion holds, val |-> the Interval].
Interval_new(below, above) ==
    [ok |-> ~Add(Num(below), Num(above)).of, val |-> Interval(below, above)]

\* `model.p1 as u64` and `SCALE - p1` of split.
split_p1(model) == Num(AsU64(model.p1))
split_p0(model) == Sub(Num(SCALE), split_p1(model))

\* divide_by_scale(a as u64 * p + (SCALE * q) - b as u64 * q) of split,
\* evaluated left to right.
split_bound(a, p, b, q) ==
    divide_by_scale(Sub(Add(Mul64(Num(AsU64(a)), p), Mul64(Num(SCALE), q)),
                        Mul64(Num(AsU64(b)), q)))

\* The end of split and of half, from the two bounds computed:
\* [panic |-> "" or why it aborted, i0, i1].
halves(self, below, above) ==
    [panic |->
        IF (below.of \/ above.of) /\ overflow_checks
            THEN "arithmetic overflow"
        ELSE IF Add(Num(below.val), Num(above.val)).val # U32(0)
            THEN "assert_eq!(below.wrapping_add(above), 0)"
        ELSE IF ~Interval_new(self.below, above.val).ok
                \/ ~Interval_new(below.val, self.above).ok
            THEN "assert!(below.checked_add(above).is_some())"
        ELSE "",
     i0 |-> Interval(self.below, above.val),
     i1 |-> Interval(below.val, self.above)]

\* Interval::split: [panic, i0, i1].
split(self, model) ==
    halves(self,
           split_bound(self.below, split_p1(model), self.above, split_p0(model)),
           split_bound(self.above, split_p0(model), self.below, split_p1(model)))

\* Interval::contains.
contains(self, other) ==
    Lt(self.below, other.below) /\ Lt(self.above, other.above)

WHOLE == Interval(U32(0), U32(0))
LOWER == Interval(U32(0), Pow2(31, 2))
MIDDLE == Interval(Pow2(30, 2), Pow2(30, 2))
UPPER == Interval(Pow2(31, 2), U32(0))

\* divide_by_scale(a as u64 * HALF + HALF - b as u64 * HALF) of half,
\* evaluated left to right.
half_bound(a, b) ==
    divide_by_scale(Sub(Add(Mul64(Num(AsU64(a)), Num(HALF)), Num(HALF)),
                        Mul64(Num(AsU64(b)), Num(HALF))))

\* Interval::half: [panic, i0, i1].
half(self) ==
    halves(self, half_bound(self.below, self.above),
                 half_bound(self.above, self.below))

\* The end of grow, from half.below + half.above and the two bounds computed:
\* [panic |-> "" or why it aborted, val |-> the grown self].
grown(inside, sum, below, above) ==
    [panic |->
        IF ~inside
            THEN "assert!(half.contains(*self))"
        ELSE IF overflow_checks /\ sum.of
            THEN "arithmetic overflow"
        ELSE IF sum.val # AsU32(HALF)
            THEN "assert_eq!(half.below + half.above, (SCALE / 2) as u32)"
        ELSE IF overflow_checks /\ (below.of \/ above.of)
            THEN "arithmetic overflow"
        ELSE "",
     val |-> Interval(below.val, above.val)]

\* Interval::grow: [panic, val].
grow(self, half_) ==
    grown(contains(half_, self),
          Add(Num(half_.below), Num(half_.above)),
          Mul32(Num(U32(2)), Sub(Num(self.below), Num(half_.below))),
          Mul32(Num(U32(2)), Sub(Num(self.above), Num(half_.above))))

(***************************************************************************)
(* src/encode/arithmetic.rs: BitWriter and Writer.  The sink is a byte     *)
(* vector, whose write always takes the byte.  The steps of Writer::write  *)
(* pass on [panic |-> "" or why it aborted, w |-> the Writer].             *)
(***************************************************************************)
\* BitWriter::new over an empty sink.
BitWriter_new == [inner |-> <<>>, buffer |-> 0, bit |-> 1]

\* buffer | bit, for a one-bit mask.
OrBit(buffer, bit) ==
    IF (buffer \div bit) % 2 = 1 THEN buffer ELSE buffer + bit

\* BitWriter::write.
BitWriter_write(bw, data) ==
    LET buffer == IF data THEN OrBit(bw.buffer, bw.bit) ELSE bw.buffer
        bit == (bw.bit * 2) % 256
    IN  IF bit = 0
        THEN [inner |-> Append(bw.inner, buffer), buffer |-> 0, bit |-> 1]
        ELSE [inner |-> bw.inner, buffer |-> buffer, bit |-> bit]

\* BitWriter::close: pad with zeros to a whole byte and return the sink.
RECURSIVE BitWriter_close(_)
BitWriter_close(bw) ==
    IF bw.bit # 1 THEN BitWriter_close(BitWriter_write(bw, FALSE)) ELSE bw.inner

\* Writer::new.
Writer_new == [inner |-> BitWriter_new, unfair |-> WHOLE, middle_count |-> 0]

\* `for _ in 0..count { bw.write(data) }`, on x = [bw, count]: the writes of
\* the first half of the rounds, then those of the rest.
RECURSIVE write_copies(_, _)
write_copies(x, data) ==
    CASE x.count = 0 -> x.bw
      [] x.count = 1 -> BitWriter_write(x.bw, data)
      [] OTHER ->
            write_copies([bw |-> write_copies([bw |-> x.bw, count |-> x.count \div 2],
                                              data),
                          count |-> x.count - x.count \div 2],
                         data)

\* Writer::inner_write: data, then middle_count copies of !data.
inner_write(w, data) ==
    [w EXCEPT !.inner = write_copies([bw |-> BitWriter_write(w.inner, data),
                                      count |-> w.middle_count],
                                     ~data),
              !.middle_count = 0]

\* `let (i0, i1) = self.unfair.split(model); self.unfair = if data {i1} else {i0}`.
write_subdivide(w, s, data) ==
    [panic |-> s.panic,
     w |-> IF s.panic # "" THEN w
           ELSE [w EXCEPT !.unfair = IF data THEN s.i1 ELSE s.i0]]

\* `self.grow(half)` returned true and then `self.inner_write(data)`.
write_end(w, g, data) ==
    [panic |-> g.panic,
     w |-> IF g.panic # "" THEN w
           ELSE inner_write([w EXCEPT !.unfair = g.val], data)]

\* The first loop of Writer::write.
RECURSIVE write_grow_ends(_)
write_grow_ends(x) ==
    CASE x.panic = "" /\ contains(LOWER, x.w.unfair) ->
            write_grow_ends(write_end(x.w, grow(x.w.unfair, LOWER), FALSE))
      [] x.panic = "" /\ contains(UPPER, x.w.unfair) ->
            write_grow_ends(write_end(x.w, grow(x.w.unfair, UPPER), TRUE))
      [] OTHER -> x

\* `self.grow(MIDDLE)` returned true and then `self.middle_count += 1`.
write_middle(w, g) ==
    [panic |-> g.panic,
     w |-> IF g.panic # "" THEN w
           ELSE [w EXCEPT !.unfair = g.val, !.middle_count = @ + 1]]

\* The second loop of Writer::write.
RECURSIVE write_grow_middle(_)
write_grow_middle(x) ==
    IF x.panic = "" /\ contains(MIDDLE, x.w.unfair)
        THEN write_grow_middle(write_middle(x.w, grow(x.w.unfair, MIDDLE)))
    ELSE x

\* Writer::write: [panic |-> "" or why it aborted, w |-> the Writer after].
Writer_write(w, model, data) ==
    write_grow_middle(write_grow_ends(
        write_subdivide(w, split(w.unfair, model), data)))

\* Writer::close: the Writer after its last inner_write; its inner is the
\* BitWriter returned.
Writer_close(w) ==
    IF Lt(w.unfair.below, w.unfair.above)
    THEN IF Lt(U32(0), w.unfair.below)
         THEN inner_write(inner_write(w, FALSE), TRUE)
         ELSE inner_write(w, FALSE)
    ELSE IF Lt(w.unfair.above, w.unfair.below)
    THEN IF Lt(U32(0), w.unfair.above)
         THEN inner_write(inner_write(w, TRUE), FALSE)
         ELSE inner_write(w, TRUE)
    ELSE w

(***************************************************************************)
(* src/encode/arithmetic.rs: BitReader and Reader.  The source is a byte   *)
(* vector read from position pos.  The steps of Reader::read pass on       *)
(* [panic |-> "" or why it aborted,                                        *)
(*  ret |-> "false" | "true" | "eof" | "panic", r |-> the Reader].         *)
(***************************************************************************)
\* BitReader::new.
BitReader_new(bytes) == [inner |-> [data |-> bytes, pos |-> 0], buffer |-> 0, bit |-> 0]

\* BitReader::read: [eof |-> whether it returned the error, ret, br].
BitReader_read(br) ==
    LET refill == br.bit = 0
        buffer == IF refill THEN br.inner.data[br.inner.pos + 1] ELSE br.buffer
        bit == IF refill THEN 1 ELSE br.bit
    IN  IF refill /\ br.inner.pos >= Len(br.inner.data)
        THEN [eof |-> TRUE, ret |-> FALSE, br |-> br]
        ELSE [eof |-> FALSE,
              ret |-> (buffer \div bit) % 2 = 1,
              br |-> [inner |-> [br.inner EXCEPT !.pos = IF refill THEN @ + 1 ELSE @],
                      buffer |-> buffer,
                      bit |-> (bit * 2) % 256]]

\* Reader::new.
Reader_new(br) == [inner |-> br, unfair |-> WHOLE, fair |-> WHOLE]

\* `self.unfair.grow(half); self.fair.grow(half); true` of Reader::grow.
Reader_grown(r, gu, gf) ==
    [panic |-> IF gu.panic # "" THEN gu.panic ELSE gf.panic,
     grown |-> gu.panic = "" /\ gf.panic = "",
     r |-> IF gu.panic # "" THEN r
           ELSE IF gf.panic # "" THEN [r EXCEPT !.unfair = gu.val]
           ELSE [r EXCEPT !.unfair = gu.val, !.fair = gf.val]]

\* Reader::grow: [panic, grown |-> what it returned, r].
Reader_grow(r, half_) ==
    IF ~contains(half_, r.unfair) THEN [panic |-> "", grown |-> FALSE, r |-> r]
    ELSE Reader_grown(r, grow(r.unfair, half_), grow(r.fair, half_))

RECURSIVE read_decide(_, _, _)
RECURSIVE read_bit(_, _, _, _, _)

\* The first loop of Reader::read, which bisects fair until one half of the
\* split contains it.
read_decide(r, i0, i1) ==
    IF contains(i0, r.fair)
        THEN [panic |-> "", ret |-> "false", r |-> [r EXCEPT !.unfair = i0]]
    ELSE IF contains(i1, r.fair)
        THEN [panic |-> "", ret |-> "true", r |-> [r EXCEPT !.unfair = i1]]
    ELSE read_bit(r, half(r.fair), BitReader_read(r.inner), i0, i1)

\* `let (h0, h1) = self.fair.half();
\*  self.fair = if self.inner.read()? { h1 } else { h0 };` and round again.
read_bit(r, h, b, i0, i1) ==
    IF h.panic # "" THEN [panic |-> h.panic, ret |-> "panic", r |-> r]
    ELSE IF b.eof THEN [panic |-> "", ret |-> "eof", r |-> r]
    ELSE read_decide([r EXCEPT !.inner = b.br,
                               !.fair = IF b.ret THEN h.i1 ELSE h.i0],
                     i0, i1)

\* `let (i0, i1) = self.unfair.split(model);` and the first loop.
read_subdivide(r, s) ==
    IF s.panic # "" THEN [panic |-> s.panic, ret |-> "panic", r |-> r]
    ELSE read_decide(r, s.i0, s.i1)

RECURSIVE read_grow_ends(_)
RECURSIVE read_lower(_, _)
RECURSIVE read_upper(_, _)

\* The second loop of Reader::read.
read_grow_ends(x) ==
    IF x.panic # "" \/ x.ret = "eof" THEN x
    ELSE read_lower(x, Reader_grow(x.r, LOWER))

\* `if self.grow(LOWER) { continue; }`.
read_lower(x, lo) ==
    IF lo.panic # "" THEN [panic |-> lo.panic, ret |-> "panic", r |-> lo.r]
    ELSE IF lo.grown THEN read_grow_ends([x EXCEPT !.r = lo.r])
    ELSE read_upper(x, Reader_grow(x.r, UPPER))

\* `if self.grow(UPPER) { continue; } break;`.
read_upper(x, up) ==
    IF up.panic # "" THEN [panic |-> up.panic, ret |-> "panic", r |-> up.r]
    ELSE IF up.grown THEN read_grow_ends([x EXCEPT !.r = up.r])
    ELSE x

RECURSIVE read_grow_middle(_)
RECURSIVE read_middle(_, _)

\* The third loop of Reader::read.
read_grow_middle(x) ==
    IF x.panic # "" \/ x.ret = "eof" THEN x
    ELSE read_middle(x, Reader_grow(x.r, MIDDLE))

\* `while self.grow(MIDDLE) {}`.
read_middle(x, mi) ==
    IF mi.panic # "" THEN [panic |-> mi.panic, ret |-> "panic", r |-> mi.r]
    ELSE IF mi.grown THEN read_grow_middle([x EXCEPT !.r = mi.r])
    ELSE x

\* Reader::read.
Reader_read(r, model) ==
    IF ~contains(r.unfair, r.fair)
        THEN [panic |-> "assert!(self.unfair.contains(self.fair))",
              ret |-> "panic", r |-> r]
    ELSE read_grow_middle(read_grow_ends(
            read_subdivide(r, split(r.unfair, model))))

\* Reader::close: [panic, br |-> the BitReader returned].
Reader_close(r) ==
    [panic |-> IF contains(r.unfair, r.fair) THEN ""
               ELSE "assert!(self.unfair.contains(self.fair))",
     br |-> r.inner]

(***************************************************************************)
(* src/encode/bits.rs: BitString.  A u64 word is held as the set of the    *)
(* positions (0..63) of its one bits, so |, & and ^ are union,             *)
(* intersection and symmetric difference.                                  *)
(***************************************************************************)
WordBits == 2^6

\* BitString::default().
BitString_default == [words |-> <<>>, last_word |-> {}, bit |-> 0]

\* BitString::len.
BitString_len(self) == WordBits * Len(self.words) + self.bit

\* BitString::push: the BitString after.
BitString_push(self, bit) ==
    LET last_word == self.last_word \cup (IF bit THEN {self.bit} ELSE {})
        n == self.bit + 1
    IN  IF n = WordBits
        THEN [words |-> Append(self.words, last_word), last_word |-> {}, bit |-> 0]
        ELSE [words |-> self.words, last_word |-> last_word, bit |-> n]

\* A faulty BitString::pop, to see which properties tell it apart: it leaves
\* out `self.last_word ^= ret`, so the popped bit stays set.
BitString_pop_keep_bit(self) ==
    LET refill == self.bit = 0
        word == IF refill THEN self.words[Len(self.words)] ELSE self.last_word
        bit == (IF refill THEN WordBits ELSE self.bit) - 1
    IN  IF refill /\ self.words = <<>> THEN [ret |-> "None", self |-> self]
        ELSE [ret |-> IF bit \in word THEN "Some(true)" ELSE "Some(false)",
              self |-> [words |-> IF refill
                                  THEN SubSeq(self.words, 1, Len(self.words) - 1)
                                  ELSE self.words,
                        last_word |-> word,
                        bit |-> bit]]

\* A faulty BitString::pop, to see which properties tell it apart: the word
\* it takes back into last_word stays in words.
BitString_pop_keep_word(self) ==
    LET refill == self.bit = 0
        word == IF refill THEN self.words[Len(self.words)] ELSE self.last_word
        bit == (IF refill THEN WordBits ELSE self.bit) - 1
        ret == word \cap {bit}
    IN  IF refill /\ self.words = <<>> THEN [ret |-> "None", self |-> self]
        ELSE [ret |-> IF ret # {} THEN "Some(true)" ELSE "Some(false)",
              self |-> [words |-> self.words,
                        last_word |-> (word \ ret) \cup (ret \ word),
                        bit |-> bit]]

\* BitString::pop: [ret |-> "None" | "Some(false)" | "Some(true)", self].
BitString_pop(self) ==
    LET refill == self.bit = 0
        words == IF refill THEN SubSeq(self.words, 1, Len(self.words) - 1)
                 ELSE self.words
        word == IF refill THEN self.words[Len(self.words)] ELSE self.last_word
        bit == (IF refill THEN WordBits ELSE self.bit) - 1
        ret == word \cap {bit}
    IN  IF refill /\ self.words = <<>> THEN [ret |-> "None", self |-> self]
        ELSE [ret |-> IF ret # {} THEN "Some(true)" ELSE "Some(false)",
              self |-> [words |-> words,
                        last_word |-> (word \ ret) \cup (ret \ word),
                        bit |-> bit]]

\* Iter::next at position pos: "None" | "Some(false)" | "Some(true)".
Iter_next(self, pos) ==
    LET word_pos == pos \div WordBits
        bit_pos == pos % WordBits
    IN  IF word_pos < Len(self.words)
        THEN IF bit_pos \in self.words[word_pos + 1] THEN "Some(true)" ELSE "Some(false)"
        ELSE IF bit_pos < self.bit
        THEN IF bit_pos \in self.last_word THEN "Some(true)" ELSE "Some(false)"
        ELSE "None"

\* The position at which BitString::iter() stops: the first one, among those
\* of the words and of the last word, where Iter::next returns None (pos is
\* not advanced past it).
Iter_end(self) ==
    CHOOSE pos \in 0..(WordBits * (Len(self.words) + 1)) :
        /\ Iter_next(self, pos) = "None"
        /\ \A before \in 0..(pos - 1) : Iter_next(self, before) # "None"

\* What BitString::iter() yields, the final None included.
Iter_collect(self) ==
    [i \in 1..(Iter_end(self) + 1) |-> Iter_next(self, i - 1)]

(***************************************************************************)
(* src/quad.rs: Path.  Its u32 is held as the set of the positions (0..31) *)
(* of its one bits.                                                        *)
(***************************************************************************)
SetMax(S) == CHOOSE m \in S : \A x \in S : x <= m
SetMin(S) == CHOOSE m \in S : \A x \in S : m <= x

Xor(a, b) == (a \ b) \cup (b \ a)
Shr2(a) == {i - 2 : i \in {j \in a : j >= 2}}
Shl2(a) == {i + 2 : i \in {j \in a : j + 2 <= 31}}
Ge(a, b) == a = b \/ SetMax(Xor(a, b)) \in a
leading_zeros(a) == IF a = {} THEN 32 ELSE 31 - SetMax(a)

\* const LIMIT: u32 = 0x55555555.
LIMIT == {i \in 0..31 : i % 2 = 0}

\* const TOP_BIT: u32 = LIMIT ^ (LIMIT >> 2).
TOP_BIT == Xor(LIMIT, Shr2(LIMIT))

\* const EMPTY: u32 = LIMIT - 1.
EMPTY == (LIMIT \ {SetMin(LIMIT)}) \cup {i \in 0..31 : i < SetMin(LIMIT)}

\* Path::default().
Path_default == EMPTY

\* Path::pop: [some |-> whether it returned Some, small, self].
Path_pop(self) ==
    IF Ge(self, EMPTY) THEN [some |-> FALSE, small |-> <<FALSE, FALSE>>, self |-> self]
    ELSE [some |-> TRUE, small |-> <<0 \in self, 1 \in self>>,
          self |-> Shr2(self) \cup TOP_BIT]

\* A faulty Path::push, to see which properties tell it apart: the two bits
\* of the selector are stored the wrong way round.
Path_push_swapped(self, small) ==
    IF ~Ge(self, TOP_BIT) THEN [panic |-> TRUE, self |-> self]
    ELSE [panic |-> FALSE,
          self |-> Shl2(self) \cup (IF small[2] THEN {0} ELSE {})
                              \cup (IF small[1] THEN {1} ELSE {})]

\* Path::push: [panic |-> whether the Overflow assertion failed, self].
Path_push(self, small) ==
    IF ~Ge(self, TOP_BIT) THEN [panic |-> TRUE, self |-> self]
    ELSE [panic |-> FALSE,
          self |-> Shl2(self) \cup (IF small[1] THEN {0} ELSE {})
                              \cup (IF small[2] THEN {1} ELSE {})]

\* Path::len: [panic |-> whether 31 - leading_zeros underflows and the build
\* checks it, len]; an unchecked underflow wraps to usize::MAX.
Path_len(self) ==
    [panic |-> overflow_checks /\ leading_zeros(Xor(self, LIMIT)) > 31,
     len |-> IF leading_zeros(Xor(self, LIMIT)) > 31 THEN "usize::MAX / 2"
             ELSE (31 - leading_zeros(Xor(self, LIMIT))) \div 2]

\* PathIterator collected: the selectors pop returns until None.
RECURSIVE Path_iter(_)
Path_iter(self) ==
    LET r == Path_pop(self)
    IN  IF r.some THEN <<r.small>> \o Path_iter(r.self) ELSE <<>>

\* `while let Some(small) = smalls.pop() { q.push(small); }` of
\* tests::round_trip: [panic, self |-> q].
RECURSIVE push_reversed(_, _)
push_reversed(q, smalls) ==
    IF smalls = <<>> THEN [panic |-> FALSE, self |-> q]
    ELSE LET r == Path_push(q, smalls[Len(smalls)])
         IN  IF r.panic THEN r
             ELSE push_reversed(r.self, SubSeq(smalls, 1, Len(smalls) - 1))

(***************************************************************************)
(* src/transform/haar.rs: Haar.  An f32 is held as the dyadic rational     *)
(* m / 2^e in lowest terms (e >= 0).  x + y, x - y and c * x are the exact *)
(* result rounded to a 24-bit significand, to nearest and ties to even, as *)
(* IEEE 754 binary32 does; no value of the model is near the ends of the   *)
(* exponent range.  A result is exact while it fits 24 bits (Exact).       *)
(***************************************************************************)
\* The largest k <= e for which 2^k divides m # 0.
Lowest(m, e) ==
    CHOOSE k \in 0..30 : m % 2^k = 0 /\ (k = e \/ (m \div 2^k) % 2 = 1)

Dyadic(m, e) ==
    IF m = 0 THEN [m |-> 0, e |-> 0]
    ELSE [m |-> m \div 2^Lowest(m, e), e |-> e - Lowest(m, e)]

Abs(n) == IF n < 0 THEN 0 - n ELSE n
Sign(n) == IF n < 0 THEN -1 ELSE 1

\* The number of bits of 0 <= n < 2^30.
BitLen(n) == CHOOSE k \in 0..30 : n < 2^k /\ (k = 0 \/ 2^(k - 1) <= n)

\* Whether a quotient with remainder r of 2^k is rounded up: to nearest and
\* ties to even; sticky says that the number rounded is a little more.
RoundsUp(r, k, odd, sticky) ==
    k > 0 /\ (r > 2^(k - 1) \/ (r = 2^(k - 1) /\ (sticky \/ odd)))

\* n / 2^k rounded to an integer.
RoundEven(n, k, sticky) ==
    IF RoundsUp(n % 2^k, k, (n \div 2^k) % 2 = 1, sticky) THEN n \div 2^k + 1
    ELSE n \div 2^k

\* m * 2^k / 2^e, for k >= 0 and any e.
Scaled(m, k, e) == IF e >= k THEN Dyadic(m, e - k) ELSE Dyadic(m * 2^(k - e), 0)

\* The f32 nearest to sign * n / 2^e (and a little more in magnitude, if
\* sticky), for 0 <= n < 2^30.
F32Round(sign, n, e, sticky) ==
    IF BitLen(n) <= 24 THEN Scaled(sign * n, 0, e)
    ELSE Scaled(sign * RoundEven(n, BitLen(n) - 24, sticky), BitLen(n) - 24, e)

\* The f32 nearest to the integer s / 2^e.
F32OfSum(s, e) == F32Round(Sign(s), Abs(s), e, FALSE)

\* c + f where c.e <= f.e and c # 0 # f.  When c * 2^(f.e - c.e) + f.m does
\* not fit 29 bits, the t low bits of f are dropped and remembered as sticky.
FAddAligned(c, f, t) ==
    IF t <= 0 THEN F32OfSum(c.m * 2^(f.e - c.e) + f.m, f.e)
    ELSE F32Round(Sign(c.m),
                  Abs(c.m) * 2^(f.e - c.e - t)
                      + (Sign(c.m) * f.m) \div 2^(IF t > 25 THEN 25 ELSE t),
                  f.e - t,
                  (Sign(c.m) * f.m) % 2^(IF t > 25 THEN 25 ELSE t) # 0)

\* x + y.
FAdd(x, y) ==
    IF x.m = 0 THEN y
    ELSE IF y.m = 0 THEN x
    ELSE IF x.e <= y.e THEN FAddAligned(x, y, BitLen(Abs(x.m)) + y.e - x.e - 29)
    ELSE FAddAligned(y, x, BitLen(Abs(y.m)) + x.e - y.e - 29)

\* x - y.
FSub(x, y) == FAdd(x, [m |-> 0 - y.m, e |-> y.e])

\* The 48-bit product of two significands below 2^24 as <<low 24 bits, high
\* 24 bits>>, computed through 12-bit halves so that no intermediate reaches
\* 2^31.
MulWide(a, b) ==
    LET mid == (a \div 2^12) * (b % 2^12) + (a % 2^12) * (b \div 2^12)
        low == (mid % 2^12) * 2^12 + (a % 2^12) * (b % 2^12)
    IN  <<low % 2^24, (a \div 2^12) * (b \div 2^12) + mid \div 2^12 + low \div 2^24>>

\* (p[2] * 2^24 + p[1]) / 2^k rounded to an integer, for k = BitLen(p[2]).
RoundWide(p, k) ==
    IF RoundsUp(p[1] % 2^k, k, (p[2] * 2^(24 - k) + p[1] \div 2^k) % 2 = 1, FALSE)
        THEN p[2] * 2^(24 - k) + p[1] \div 2^k + 1
    ELSE p[2] * 2^(24 - k) + p[1] \div 2^k

\* The f32 nearest to sign * (p[2] * 2^24 + p[1]) / 2^e.
F32OfWide(sign, p, e) ==
    IF p[2] = 0 THEN Scaled(sign * p[1], 0, e)
    ELSE Scaled(sign * RoundWide(p, BitLen(p[2])), BitLen(p[2]), e)

\* x * y.
FMul(x, y) == F32OfWide(Sign(x.m) * Sign(y.m), MulWide(Abs(x.m), Abs(y.m)), x.e + y.e)

\* -x.
FNeg(x) == [m |-> 0 - x.m, e |-> x.e]

\* 0.5 * x.
FHalf(x) == Dyadic(x.m, x.e + 1)

Exact(x) == x.m < 2^24 /\ 0 - x.m < 2^24

\* One round of the long division by b: k more bits of the quotient q, the
\* remainder r staying below b < 2^24 (k <= 6, so that r * 2^k < 2^30).
DivRound(x, k) ==
    [q |-> x.q * 2^k + (x.r * 2^k) \div x.b, r |-> (x.r * 2^k) % x.b, b |-> x.b]

\* [q |-> the integer part of a * 2^26 / b, r |-> the remainder], for
\* 0 < a, b < 2^24.
DivWide(a, b) ==
    DivRound(DivRound(DivRound(DivRound(DivRound([q |-> a \div b, r |-> a % b, b |-> b],
                                                 6), 6), 6), 6), 2)

\* The f32 nearest to sign * (d.q + a little more, if d.r # 0) / 2^e, for
\* any e.
F32OfQuotient(sign, d, e) == F32Round(sign, d.q, e, d.r # 0)

\* n with its top bit moved to bit 23.
Normal(n) == n * 2^(24 - BitLen(n))

\* x / y, for x and y of at most 24 significant bits and y # 0.
FDiv(x, y) ==
    IF x.m = 0 THEN x
    ELSE F32OfQuotient(Sign(x.m) * Sign(y.m),
                       DivWide(Normal(Abs(x.m)), Normal(Abs(y.m))),
                       26 + (24 - BitLen(Abs(x.m))) + x.e - (24 - BitLen(Abs(y.m))) - y.e)

\* n^3 for n < 2^24, as three digits of 24 bits, the lowest first.  sq is
\* MulWide(n, n).
CubeOfSquare(n, sq) ==
    <<MulWide(sq[1], n)[1],
      (MulWide(sq[2], n)[1] + MulWide(sq[1], n)[2]) % 2^24,
      MulWide(sq[2], n)[2] + (MulWide(sq[2], n)[1] + MulWide(sq[1], n)[2]) \div 2^24>>

Cube(n) == CubeOfSquare(n, MulWide(n, n))

\* m * 2^s as three digits of 24 bits, for m < 2^24 and 2^69 <= m * 2^s < 2^72.
Shifted(m, s) ==
    IF s >= 48 THEN <<0, 0, m * 2^(s - 48)>>
    ELSE <<0, (m % 2^(48 - s)) * 2^(s - 24), m \div 2^(48 - s)>>

\* a <= b, for numbers of three digits.
DigitsLeq(a, b) ==
    \/ a[3] < b[3]
    \/ a[3] = b[3] /\ a[2] < b[2]
    \/ a[3] = b[3] /\ a[2] = b[2] /\ a[1] <= b[1]

\* The greatest n + j * 2^bit, 0 <= j < 16, whose cube is at most M.
RootDigit(n, bit, M) ==
    n + 2^bit * Cardinality({j \in 1..15 : DigitsLeq(Cube(n + j * 2^bit), M)})

\* body, once the integer n has been evaluated.
AfterInt(n, body) == IF n >= 0 THEN body ELSE body

\* The integer part of the cube root of M < 2^72, four bits at a time.
RootBits(M) ==
    RootDigit(RootDigit(RootDigit(RootDigit(RootDigit(RootDigit(0, 20, M), 16, M), 12, M),
                                  8, M), 4, M), 0, M)

\* The s, 70 <= BitLen(m) + s <= 72, for which s + e is a multiple of 3.
RootShift(m, e) ==
    CHOOSE s \in (70 - BitLen(m))..(72 - BitLen(m)) : (s + e) % 3 = 0

\* n / 2^f, or with `up` the next f32, when n^3 is not M.
RootRounded(n, f, M, up) ==
    AfterInt(n, IF up /\ Cube(n) # M THEN Scaled(n + 1, 0, f) ELSE Scaled(n, 0, f))

\* The cube root of M / 2^(3 * f) as n / 2^f, n the integer part of the
\* cube root of M: the greatest f32 that is at most the root, or the least
\* f32 above it.
RootOfShifted(M, f, up) == AfterInt(M[3], RootRounded(RootBits(M), f, M, up))

\* The cube root of m / 2^e, from the s of RootShift.
RootOf(m, e, s, up) == AfterInt(s, RootOfShifted(Shifted(m, s), (s + e) \div 3, up))

\* f32::cbrt of x > 0.  Its precision is not specified: a build returns a
\* neighbour of the root, below it or (up) above it.
FCbrt(x, up) == RootOf(x.m, x.e, RootShift(x.m, x.e), up)

\* Haar::new(a, b, c, d): the tile [[a, b], [c, d]] in row-major order.
Haar_new(a, b, c, d) == <<a, b, c, d>>

\* A faulty Haar::transform, to see which properties tell it apart: the last
\* coefficient has the wrong sign between its two differences.
transform_wrong_sign(self) ==
    LET a == FHalf(self[1])
        b == FHalf(self[2])
        c == FHalf(self[3])
        d == FHalf(self[4])
    IN  Haar_new(FAdd(FAdd(a, b), FAdd(c, d)), FAdd(FSub(a, b), FSub(c, d)),
                 FSub(FAdd(a, b), FAdd(c, d)), FAdd(FSub(a, b), FSub(c, d)))

\* A faulty Haar::transform, to see which properties tell it apart: the
\* inputs are not scaled by 0.5.
transform_unscaled(self) ==
    LET a == self[1]
        b == self[2]
        c == self[3]
        d == self[4]
    IN  Haar_new(FAdd(FAdd(a, b), FAdd(c, d)), FAdd(FSub(a, b), FSub(c, d)),
                 FSub(FAdd(a, b), FAdd(c, d)), FSub(FSub(a, b), FSub(c, d)))

\* Haar::transform.
transform(self) ==
    LET a == FHalf(self[1])
        b == FHalf(self[2])
        c == FHalf(self[3])
        d == FHalf(self[4])
    IN  Haar_new(FAdd(FAdd(a, b), FAdd(c, d)), FAdd(FSub(a, b), FSub(c, d)),
                 FSub(FAdd(a, b), FAdd(c, d)), FSub(FSub(a, b), FSub(c, d)))

\* Haar::transpose (Tile::transpose).
Haar_transpose(self) == Haar_new(self[1], self[3], self[2], self[4])

\* self[(b0, b1)] of a Tile: its position in row-major order.
Small(b0, b1) == 2 * (IF b0 THEN 1 ELSE 0) + (IF b1 THEN 1 ELSE 0) + 1

(***************************************************************************)
(* src/transform/mod.rs, haar.rs, vhc.rs, twiddle.rs: grids.  An           *)
(* Array<Grid, T> of size (height, width) is the sequence of its rows,     *)
(* each the sequence of its items.                                         *)
(***************************************************************************)
Height(grid) == Len(grid)
Width(grid) == Len(grid[1])

\* group: the grid of the 2x2 tiles of v, each in row-major order.
group(v) ==
    SubSeq([i \in 1..(Height(v) \div 2) |->
               SubSeq([j \in 1..(Width(v) \div 2) |->
                          <<v[2 * i - 1][2 * j - 1], v[2 * i - 1][2 * j],
                            v[2 * i][2 * j - 1], v[2 * i][2 * j]>>],
                      1, Width(v) \div 2)],
           1, Height(v) \div 2)

\* ungroup: the grid whose 2x2 tiles are those of v.
ungroup(v) ==
    SubSeq([y \in 1..(2 * Height(v)) |->
               SubSeq([x \in 1..(2 * Width(v)) |->
                          v[(y + 1) \div 2][(x + 1) \div 2]
                           [2 * ((y - 1) % 2) + ((x - 1) % 2) + 1]],
                      1, 2 * Width(v))],
           1, 2 * Height(v))

\* grid.map(Haar::transform).
MapTransform(grid) ==
    SubSeq([i \in 1..Height(grid) |->
               SubSeq([j \in 1..Width(grid) |-> transform(grid[i][j])],
                      1, Width(grid))],
           1, Height(grid))

\* to_haar.
to_haar(pixels) == MapTransform(group(pixels))

\* from_haar.
from_haar(tiles) == ungroup(MapTransform(tiles))

\* to_low.
to_low(pixels) ==
    SubSeq([i \in 1..Height(pixels) |->
               SubSeq([j \in 1..Width(pixels) |-> pixels[i][j][Small(FALSE, FALSE)]],
                      1, Width(pixels))],
           1, Height(pixels))

\* to_high: at each position the components Vertical, Horizontal, Cross.
to_high(pixels) ==
    SubSeq([i \in 1..Height(pixels) |->
               SubSeq([j \in 1..Width(pixels) |->
                          <<pixels[i][j][Small(FALSE, TRUE)],
                            pixels[i][j][Small(TRUE, FALSE)],
                            pixels[i][j][Small(TRUE, TRUE)]>>],
                      1, Width(pixels))],
           1, Height(pixels))

\* from_low_high; the sizes are equal in every call of the model.
from_low_high(low, high) ==
    SubSeq([i \in 1..Height(low) |->
               SubSeq([j \in 1..Width(low) |->
                          Haar_new(low[i][j], high[i][j][1], high[i][j][2],
                                   high[i][j][3])],
                      1, Width(low))],
           1, Height(low))

\* cos(a) and sin(a) of twiddle as f32s.
COS == Dyadic(16744459, 24)
SIN == Dyadic(16766295, 28)

\* One round of the loop of rotate, on hs[x][ix] and hs[y][iy] (from 1).
rotate_round(hs, x, y, ix, iy, sin) ==
    [hs EXCEPT ![x][ix] = FAdd(FMul(COS, hs[x][ix]), FMul(sin, hs[y][iy])),
               ![y][iy] = FSub(FMul(COS, hs[y][iy]), FMul(sin, hs[x][ix]))]

\* rotate(x, y, is_x_high) for step = <<x, y, is_x_high>> (x, y from 0).
rotate(hs, step, sin) ==
    rotate_round(rotate_round(hs, step[1] + 1, step[2] + 1,
                              Small(FALSE, step[3]), Small(FALSE, ~step[3]), sin),
                 step[1] + 1, step[2] + 1,
                 Small(TRUE, step[3]), Small(TRUE, ~step[3]), sin)

\* The calls of rotate made by the `while i < n` loop that starts at i = first.
pass_pairs(first, n) ==
    SubSeq([k \in 1..(2 * n) |->
               <<first + 2 * ((k - 1) \div 2) - 1, first + 2 * ((k - 1) \div 2),
                 (k - 1) % 2 = 1>>],
           1, IF n > first THEN 2 * ((n - first + 1) \div 2) ELSE 0)

\* The calls of rotate made by one round of `for start in [0, 1, 1, 0]`.
pass(start, n) ==
    (IF start = 0 THEN << <<0, 0, FALSE>> >> ELSE <<>>)
        \o pass_pairs(IF start = 0 THEN 2 ELSE 1, n)
        \o (IF (n - start) % 2 = 0 THEN << <<n - 1, n - 1, TRUE>> >> ELSE <<>>)

\* The calls steps[x.lo..x.hi] of rotate applied in order to x.hs: those of
\* the first half, then those of the rest.
RECURSIVE rotate_all(_, _, _)
rotate_all(x, steps, sin) ==
    CASE x.hi < x.lo -> x.hs
      [] x.hi = x.lo -> rotate(x.hs, steps[x.lo], sin)
      [] OTHER ->
            rotate_all([hs |-> rotate_all([hs |-> x.hs, lo |-> x.lo,
                                           hi |-> (x.lo + x.hi) \div 2],
                                          steps, sin),
                        lo |-> (x.lo + x.hi) \div 2 + 1, hi |-> x.hi],
                       steps, sin)

\* The calls of rotate made by `for start in [0, 1, 1, 0]`.
passes(n) == pass(0, n) \o pass(1, n) \o pass(1, n) \o pass(0, n)

\* A faulty twiddle, to see which properties tell it apart: the inverse does
\* not negate sin.
twiddle_same_sin(hs, IS_INVERSE) ==
    rotate_all([hs |-> hs, lo |-> 1, hi |-> Len(passes(Len(hs)))], passes(Len(hs)), SIN)

\* twiddle::<IS_INVERSE>.
twiddle(hs, IS_INVERSE) ==
    rotate_all([hs |-> hs, lo |-> 1, hi |-> Len(passes(Len(hs)))], passes(Len(hs)),
               IF IS_INVERSE THEN FNeg(SIN) ELSE SIN)

\* twiddle_columns::<IS_INVERSE>: each column, its Haars transposed, is
\* twiddled and becomes a row of the result.
twiddle_columns(quads, IS_INVERSE) ==
    SubSeq([x \in 1..Width(quads) |->
               twiddle(SubSeq([y \in 1..Height(quads) |-> Haar_transpose(quads[y][x])],
                              1, Height(quads)),
                       IS_INVERSE)],
           1, Width(quads))

\* twiddle_grid::<IS_INVERSE>.
twiddle_grid(quads, IS_INVERSE) ==
    twiddle_columns(twiddle_columns(quads, IS_INVERSE), IS_INVERSE)

(***************************************************************************)
(* src/transform/mod.rs: Pyramid {low, highs}.  highs is the sequence of   *)
(* its levels, the coarsest first; a level is the grid of the <<Vertical,  *)
(* Horizontal, Cross>> components at each position.                        *)
(***************************************************************************)
Reverse(seq) == SubSeq([i \in 1..Len(seq) |-> seq[Len(seq) + 1 - i]], 1, Len(seq))

\* `let mut haar = to_haar(low); if is_smooth { haar = twiddle_grid(haar) }`.
from_pixels_haar(low, is_smooth) ==
    IF is_smooth THEN twiddle_grid(to_haar(low), FALSE) ELSE to_haar(low)

\* One round of the loop of from_pixels, from the haar it computed.
from_pixels_round(x, haar_) ==
    [low |-> to_low(haar_), highs |-> Append(x.highs, to_high(haar_)),
     rounds |-> x.rounds - 1]

\* The loop of from_pixels on x = [low, highs, rounds |-> rounds to go].
RECURSIVE from_pixels_loop(_, _)
from_pixels_loop(x, is_smooth) ==
    IF x.rounds = 0 THEN x
    ELSE from_pixels_loop(from_pixels_round(x, from_pixels_haar(x.low, is_smooth)),
                          is_smooth)

\* The Pyramid returned from the loop's final low and highs.
Pyramid(x) == [low |-> x.low, highs |-> Reverse(x.highs)]

\* Pyramid::from_pixels.
Pyramid_from_pixels(order, is_smooth, pixels) ==
    Pyramid(from_pixels_loop([low |-> pixels, highs |-> <<>>, rounds |-> order],
                             is_smooth))

\* `let mut haar = from_low_high(low, high); if is_smooth { ... }`.
to_pixels_haar(low, high, is_smooth) ==
    IF is_smooth THEN twiddle_grid(from_low_high(low, high), TRUE)
    ELSE from_low_high(low, high)

\* The loop of to_pixels on x = [low, highs], which pops the last of highs.
RECURSIVE to_pixels_loop(_, _)
to_pixels_loop(x, is_smooth) ==
    IF x.highs = <<>> THEN x.low
    ELSE to_pixels_loop(
            [low |-> from_haar(to_pixels_haar(x.low, x.highs[Len(x.highs)], is_smooth)),
             highs |-> SubSeq(x.highs, 1, Len(x.highs) - 1)],
            is_smooth)

\* Pyramid::to_pixels.
Pyramid_to_pixels(self, is_smooth) ==
    to_pixels_loop([low |-> self.low, highs |-> Reverse(self.highs)], is_smooth)

\* Pyramid::order.
Pyramid_order(self) == Len(self.highs)

(***************************************************************************)
(* src/quad.rs: Tree, and src/transform/mod.rs: Position, Pyramid::get and *)
(* Pyramid::set.  A Tree is Leaf or the record of a Branch, whose children *)
(* are in row-major order; a Position is [level, yx] with yx from 0.       *)
(***************************************************************************)
Leaf == [leaf |-> TRUE]

\* Tree::branch.
Tree_branch(payload, children) == [payload |-> payload, children |-> children]

Position(level, yx) == [level |-> level, yx |-> yx]

\* Position::children, in the order of <(bool, bool)>::all.
Position_children(self) ==
    <<Position(self.level + 1, <<2 * self.yx[1], 2 * self.yx[2]>>),
      Position(self.level + 1, <<2 * self.yx[1], 2 * self.yx[2] + 1>>),
      Position(self.level + 1, <<2 * self.yx[1] + 1, 2 * self.yx[2]>>),
      Position(self.level + 1, <<2 * self.yx[1] + 1, 2 * self.yx[2] + 1>>)>>

\* self.highs[pos.level].row(pos.yx): the components at pos, indexed by VHC.
Pyramid_row(self, pos) == self.highs[pos.level + 1][pos.yx[1] + 1][pos.yx[2] + 1]

\* Pyramid::get.
RECURSIVE Pyramid_get(_, _)
Pyramid_get(self, pos) ==
    IF pos.level < Pyramid_order(self)
    THEN Tree_branch(Pyramid_row(self, pos),
                     <<Pyramid_get(self, Position_children(pos)[1]),
                       Pyramid_get(self, Position_children(pos)[2]),
                       Pyramid_get(self, Position_children(pos)[3]),
                       Pyramid_get(self, Position_children(pos)[4])>>)
    ELSE Leaf

\* A faulty set_row, to see which properties tell it apart: Vertical and
\* Horizontal are written to each other's cell.
set_row_swapped(self, pos, payload) ==
    [self EXCEPT !.highs[pos.level + 1][pos.yx[1] + 1][pos.yx[2] + 1] =
                    <<payload[2], payload[1], payload[3]>>]

\* `VHC::each((), |w| { self[(pos, w)] = payload.at(w); })`.
set_row(self, pos, payload) ==
    [self EXCEPT !.highs[pos.level + 1][pos.yx[1] + 1][pos.yx[2] + 1] =
                    <<payload[1], payload[2], payload[3]>>]

\* The payload and the children that set writes for tree: those of a Branch,
\* and 0.0 and Leafs for a Leaf.
set_payload(tree) ==
    IF tree = Leaf THEN <<Dyadic(0, 0), Dyadic(0, 0), Dyadic(0, 0)>> ELSE tree.payload

set_children(tree) ==
    IF tree = Leaf THEN <<Leaf, Leaf, Leaf, Leaf>> ELSE tree.children

\* Pyramid::set: the Pyramid after.
RECURSIVE Pyramid_set(_, _, _)
Pyramid_set(self, pos, tree) ==
    IF pos.level < Pyramid_order(self)
    THEN Pyramid_set(
            Pyramid_set(
                Pyramid_set(
                    Pyramid_set(set_row(self, pos, set_payload(tree)),
                                Position_children(pos)[1], set_children(tree)[1]),
                    Position_children(pos)[2], set_children(tree)[2]),
                Position_children(pos)[3], set_children(tree)[3]),
            Position_children(pos)[4], set_children(tree)[4])
    ELSE self

(***************************************************************************)
(* src/quantize/bcc.rs: ShiftedBCC.  Its i16 fields are integers; the f32  *)
(* coordinates are dyadic rationals as above.                              *)
(***************************************************************************)
\* No ShiftedBCC, and no Chain.
None == [none |-> TRUE]

I16_MIN == 0 - 2^15
I16_MAX == 2^15 - 1

\* `x as i16` of an f32: rounded toward zero and saturated.
Truncated(x) == IF x.e > 30 THEN 0 ELSE Sign(x.m) * (Abs(x.m) \div 2^x.e)

AsI16(x) ==
    IF Truncated(x) < I16_MIN THEN I16_MIN
    ELSE IF Truncated(x) > I16_MAX THEN I16_MAX
    ELSE Truncated(x)

\* `n as f32` of an i16.
AsF32(n) == Dyadic(n, 0)

\* The result of an i16 operation whose exact value is n:
\* [of |-> whether it overflowed, val |-> the wrapped value].
I16(n) ==
    [of |-> n < I16_MIN \/ n > I16_MAX, val |-> ((n - I16_MIN) % 2^16) + I16_MIN]

\* f32::round: to the nearest integer, ties away from zero.
FRound(x) ==
    IF x.e = 0 THEN x
    ELSE IF x.e > 30 THEN Dyadic(0, 0)
    ELSE Dyadic(Sign(x.m) * ((Abs(x.m) + 2^(x.e - 1)) \div 2^x.e), 0)

\* 2.0 * x.
FDouble(x) == Scaled(x.m, 1, x.e)

\* x < y.
FLess(x, y) == FSub(x, y).m < 0

\* round2.
round2(x) == FDouble(FRound(FHalf(x)))

\* norm.
norm(v, h, c) == FAdd(FAdd(FMul(v, v), FMul(h, h)), FMul(c, c))

ShiftedBCC(v, h, c) == [v |-> v, h |-> h, c |-> c]

\* ShiftedBCC::new_inner: [panic |-> "" or the assertion that failed, val].
ShiftedBCC_new_inner(v, h, c) ==
    [panic |-> IF v % 2 # c % 2 \/ h % 2 # c % 2 THEN "Not a quantisation point"
               ELSE "",
     val |-> ShiftedBCC(v, h, c)]

\* A faulty ShiftedBCC::new, to see which properties tell it apart: 0.5 is
\* not taken off c before the cast.
ShiftedBCC_new_unshifted(v, h, c) ==
    ShiftedBCC_new_inner(AsI16(FSub(v, Dyadic(1, 0))), AsI16(FSub(h, Dyadic(0, 0))),
                         AsI16(c))

\* ShiftedBCC::new: [panic, val].
ShiftedBCC_new(v, h, c) ==
    ShiftedBCC_new_inner(AsI16(FSub(v, Dyadic(1, 0))), AsI16(FSub(h, Dyadic(0, 0))),
                         AsI16(FSub(c, Dyadic(1, 1))))

\* ShiftedBCC::v, h, c and vhc.
ShiftedBCC_v(self) == FAdd(AsF32(self.v), Dyadic(1, 0))
ShiftedBCC_h(self) == FAdd(AsF32(self.h), Dyadic(0, 0))
ShiftedBCC_c(self) == FAdd(AsF32(self.c), Dyadic(1, 1))
ShiftedBCC_vhc(self) == <<ShiftedBCC_v(self), ShiftedBCC_h(self), ShiftedBCC_c(self)>>

\* A candidate <<v1, h1, c1>> of quantize with its norm.
quantize_candidate(v, h, c, v1, h1, c1) ==
    [vhc |-> <<v1, h1, c1>>, norm |-> norm(FSub(v, v1), FSub(h, h1), FSub(c, c1))]

\* What quantize returns for a candidate: [panic, val, err2].
quantize_return(new, norm1) == [panic |-> new.panic, val |-> new.val, err2 |-> norm1]

\* A faulty choice of quantize, to see which properties tell it apart: the
\* first candidate is returned when the two are equidistant.
quantize_choose_first(c1, c2) ==
    IF ~FLess(c2.norm, c1.norm)
    THEN quantize_return(ShiftedBCC_new(c1.vhc[1], c1.vhc[2], c1.vhc[3]), c1.norm)
    ELSE quantize_return(ShiftedBCC_new(c2.vhc[1], c2.vhc[2], c2.vhc[3]), c2.norm)

\* `if norm1 < norm2 { ... } else { ... }` of quantize.
quantize_choose(c1, c2) ==
    IF FLess(c1.norm, c2.norm)
    THEN quantize_return(ShiftedBCC_new(c1.vhc[1], c1.vhc[2], c1.vhc[3]), c1.norm)
    ELSE quantize_return(ShiftedBCC_new(c2.vhc[1], c2.vhc[2], c2.vhc[3]), c2.norm)

\* ShiftedBCC::quantize: [panic, val, err2].
ShiftedBCC_quantize(v, h, c) ==
    quantize_choose(
        quantize_candidate(v, h, c,
                           FAdd(round2(FSub(v, Dyadic(1, 0))), Dyadic(1, 0)),
                           FAdd(round2(FSub(h, Dyadic(0, 0))), Dyadic(0, 0)),
                           FAdd(round2(FSub(c, Dyadic(1, 1))), Dyadic(1, 1))),
        quantize_candidate(v, h, c,
                           FSub(round2(FAdd(v, Dyadic(0, 0))), Dyadic(0, 0)),
                           FSub(round2(FAdd(h, Dyadic(1, 0))), Dyadic(1, 0)),
                           FSub(round2(FAdd(c, Dyadic(1, 1))), Dyadic(1, 1))))

\* A Residual is its u8, 0..7; a Symmetry is its u8, 0..3.
RESIDUALS ==
    <<<<Dyadic(-1, 1), Dyadic(0, 0), Dyadic(3, 2)>>,
      <<Dyadic(0, 0), Dyadic(-1, 1), Dyadic(-3, 2)>>,
      <<Dyadic(0, 0), Dyadic(1, 1), Dyadic(-3, 2)>>,
      <<Dyadic(1, 1), Dyadic(0, 0), Dyadic(3, 2)>>,
      <<Dyadic(-1, 1), Dyadic(0, 0), Dyadic(-1, 2)>>,
      <<Dyadic(0, 0), Dyadic(-1, 1), Dyadic(1, 2)>>,
      <<Dyadic(0, 0), Dyadic(1, 1), Dyadic(1, 2)>>,
      <<Dyadic(1, 1), Dyadic(0, 0), Dyadic(-1, 2)>>>>

DELTAS ==
    <<<<0, 0, 2>>, <<1, -1, -1>>, <<1, 1, -1>>, <<2, 0, 2>>,
      <<0, 0, 0>>, <<1, -1, 1>>, <<1, 1, 1>>, <<2, 0, 0>>>>

SYNDROMES ==
    <<<<<<4, 6, 0, 2>>, <<3, 5, 7, 1>>>>,
      <<<<7, 1, 3, 5>>, <<0, 2, 4, 6>>>>>>

ALL_RESIDUALS == 0..7
ALL_SYMMETRIES == 0..3

\* `residual` of arrow.
arrow_residual(self) ==
    SYNDROMES[((self.v \div 2) % 2) + 1][((self.h \div 2) % 2) + 1][(self.c % 4) + 1]

\* `destination` of arrow from the three differences: [panic, val].
arrow_destination(v, h, c) ==
    IF overflow_checks /\ (v.of \/ h.of \/ c.of)
    THEN [panic |-> "arithmetic overflow", val |-> ShiftedBCC(0, 0, 0)]
    ELSE ShiftedBCC_new_inner(v.val \div 2, h.val \div 2, c.val \div 2)

\* The end of arrow: [panic, b |-> destination, r |-> residual].
arrow_return(destination, residual) ==
    [panic |-> destination.panic, b |-> destination.val, r |-> residual]

\* A faulty arrow, to see which properties tell it apart: the delta of
\* the residual is not taken off before the halving.
ShiftedBCC_arrow_no_delta(self) ==
    arrow_return(arrow_destination(I16(self.v), I16(self.h), I16(self.c)),
                 arrow_residual(self))

\* ShiftedBCC::arrow: [panic, b, r].
ShiftedBCC_arrow(self) ==
    arrow_return(arrow_destination(I16(self.v - DELTAS[arrow_residual(self) + 1][1]),
                                   I16(self.h - DELTAS[arrow_residual(self) + 1][2]),
                                   I16(self.c - DELTAS[arrow_residual(self) + 1][3])),
                 arrow_residual(self))

\* Residual::vhc.
Residual_vhc(self) == RESIDUALS[self + 1]

\* Residual::fixed_point.
Residual_fixed_point(self) ==
    <<FMul(Dyadic(-2, 0), Residual_vhc(self)[1]), FMul(Dyadic(-2, 0), Residual_vhc(self)[2]),
      FMul(Dyadic(-2, 0), Residual_vhc(self)[3])>>

\* Residual::recommend_symmetry: self.0 & 3.
Residual_recommend_symmetry(self) == self % 4

\* a ^ b for u8s below 8.
Xor8(a, b) ==
    ((a + b) % 2) + 2 * (((a \div 2) + (b \div 2)) % 2) + 4 * (((a \div 4) + (b \div 4)) % 2)

\* A faulty Residual::apply_symmetry, to see which properties tell it apart:
\* the tag is added, not XORed.
Residual_apply_symmetry_add(self, s) == (self + s) % 8

\* Residual::apply_symmetry.
Residual_apply_symmetry(self, s) == Xor8(self, s)

(***************************************************************************)
(* src/quantize/bcc.rs: Chain.                                             *)
(***************************************************************************)
Chain(residuals, last_residual) ==
    [residuals |-> residuals, last_residual |-> last_residual]

RECURSIVE from_bcc_loop(_)

\* A faulty turn of the loop, to see which properties tell it apart: the
\* loop is left after the second arrow, at a fixed point or not.
from_bcc_two_rounds(x, a) ==
    IF a.panic # "" THEN [panic |-> a.panic, val |-> None]
    ELSE IF x.bcc = a.b THEN [panic |-> "", val |-> Chain(x.residuals, a.r)]
    ELSE [panic |-> "",
          val |-> Chain(Append(x.residuals, a.r), ShiftedBCC_arrow(a.b).r)]

\* A faulty turn of the loop, to see which properties tell it apart: the
\* residual of the fixed point is pushed too.
from_bcc_round_push_last(x, a) ==
    IF a.panic # "" THEN [panic |-> a.panic, val |-> None]
    ELSE IF x.bcc = a.b THEN [panic |-> "", val |-> Chain(Append(x.residuals, a.r), a.r)]
    ELSE from_bcc_loop([bcc |-> a.b, residuals |-> Append(x.residuals, a.r)])

\* One turn of the loop of from_bcc, `a` being what arrow returned.
from_bcc_round(x, a) ==
    IF a.panic # "" THEN [panic |-> a.panic, val |-> None]
    ELSE IF x.bcc = a.b THEN [panic |-> "", val |-> Chain(x.residuals, a.r)]
    ELSE from_bcc_loop([bcc |-> a.b, residuals |-> Append(x.residuals, a.r)])

\* A faulty loop of from_bcc, to see which properties tell it apart: the
\* residual is pushed before the test for the fixed point.
from_bcc_push_first(x) ==
    from_bcc_round([bcc |-> x.bcc,
                    residuals |-> Append(x.residuals, ShiftedBCC_arrow(x.bcc).r)],
                   ShiftedBCC_arrow(x.bcc))

\* The loop of from_bcc, x = [bcc, residuals].
from_bcc_loop(x) == from_bcc_round(x, ShiftedBCC_arrow(x.bcc))

\* Chain::from_bcc: [panic, val].
Chain_from_bcc(bcc_) == from_bcc_loop([bcc |-> bcc_, residuals |-> <<>>])

\* One turn of the loop of Chain::vhc; the product by 2.0 is exact.
vhc_round(x, d) ==
    <<FDouble(FAdd(x[1], d[1])), FDouble(FAdd(x[2], d[2])), FDouble(FAdd(x[3], d[3]))>>

\* x is a triple of f32s (true of every x; asking it evaluates x).
IsVhc(x) == x[1].e >= 0 /\ x[2].e >= 0 /\ x[3].e >= 0

RECURSIVE vhc_loop(_, _)

\* A faulty loop of Chain::vhc, to see which properties tell it apart: the
\* residuals are taken from least to most significant.
vhc_loop_forward(residuals, x) ==
    IF IsVhc(x) /\ residuals # <<>>
    THEN vhc_loop(Tail(residuals), vhc_round(x, Residual_vhc(Head(residuals))))
    ELSE x

\* The loop of Chain::vhc over residuals.iter().rev().
vhc_loop(residuals, x) ==
    IF IsVhc(x) /\ residuals # <<>>
    THEN vhc_loop(SubSeq(residuals, 1, Len(residuals) - 1),
                  vhc_round(x, Residual_vhc(residuals[Len(residuals)])))
    ELSE x

\* Chain::vhc.
Chain_vhc(self) == vhc_loop(self.residuals, Residual_fixed_point(self.last_residual))

\* ShiftedBCC::new of a triple.
new_of(vhc) == ShiftedBCC_new(vhc[1], vhc[2], vhc[3])

\* Chain::to_bcc: [panic, val].
Chain_to_bcc(self) == new_of(Chain_vhc(self))

\* A faulty Chain::apply_symmetry, to see which properties tell it apart:
\* last_residual is left as it is.
Chain_apply_symmetry_keep_last(self, s) ==
    Chain(SubSeq([i \in 1..Len(self.residuals) |->
                     Residual_apply_symmetry(self.residuals[i], s)],
                 1, Len(self.residuals)),
          self.last_residual)

\* Chain::apply_symmetry.
Chain_apply_symmetry(self, s) ==
    Chain(SubSeq([i \in 1..Len(self.residuals) |->
                     Residual_apply_symmetry(self.residuals[i], s)],
                 1, Len(self.residuals)),
          Residual_apply_symmetry(self.last_residual, s))

(***************************************************************************)
(* src/quantize/mod.rs: tolerance, to_digital and from_digital.  A VHC     *)
(* payload is <<v, h, c>>; `up` is the way the build's f32::cbrt rounds.   *)
(***************************************************************************)
\* 0.001 as an f32.
THOUSANDTH == [m |-> 8589935, e |-> 33]

\* body, once the f32 x has been evaluated.
After(x, body) == IF x.e >= 0 THEN body ELSE body

\* luma / (3.0 * luma.cbrt()), from the cube root and from the divisor.
tolerance_over(luma, divisor) == After(divisor, FDiv(luma, divisor))
tolerance_by(luma, cbrt) == After(cbrt, tolerance_over(luma, FMul(Dyadic(3, 0), cbrt)))
tolerance_of(luma, up) == tolerance_by(luma, FCbrt(luma, up))

\* tolerance.
tolerance(linear, up) ==
    tolerance_of(IF FLess(linear, THOUSANDTH) THEN THOUSANDTH ELSE linear, up)

\* f32::recip.
FRecip(x) == FDiv(Dyadic(1, 0), x)

\* 0.5_f32.powi(order).
gain_of(order) == Dyadic(1, order)

\* tolerance * bcc.v(), tolerance * bcc.h(), tolerance * bcc.c().
dequantized(tolerance_, payload) ==
    <<FMul(tolerance_, ShiftedBCC_v(payload)), FMul(tolerance_, ShiftedBCC_h(payload)),
      FMul(tolerance_, ShiftedBCC_c(payload))>>

\* Haar::new(low, v, h, c).transform().
child_lows(low, vhc) == transform(Haar_new(low, vhc[1], vhc[2], vhc[3]))

\* [Tree::Leaf; 4].
Leaves4 == <<Leaf, Leaf, Leaf, Leaf>>

RECURSIVE from_digital_inner(_, _, _, _)

\* `children` of from_digital_inner.
from_digital_children(haar_, children, gain, up) ==
    <<from_digital_inner(haar_[1], children[1], FDouble(gain), up),
      from_digital_inner(haar_[2], children[2], FDouble(gain), up),
      from_digital_inner(haar_[3], children[3], FDouble(gain), up),
      from_digital_inner(haar_[4], children[4], FDouble(gain), up)>>

\* The Branch from_digital_inner returns, vhc being [v, h, c].
from_digital_branch(low, vhc, children, gain, up) ==
    Tree_branch(vhc, from_digital_children(child_lows(low, vhc), children, gain, up))

\* from_digital_inner of a Branch from `let v` on.
from_digital_tolerant(low, payload, children, gain, up, tolerance_) ==
    After(tolerance_,
          from_digital_branch(low, dequantized(tolerance_, payload), children, gain, up))

\* A faulty from_digital_inner, to see which properties tell it apart: the
\* children of a Branch are not converted, but replaced with Leaves.
from_digital_inner_childless(low, tree, gain, up) ==
    IF tree = Leaf THEN Leaf
    ELSE After(low, After(gain,
             Tree_branch(dequantized(tolerance(FMul(low, gain), up), tree.payload),
                         Leaves4)))

\* from_digital_inner.
from_digital_inner(low, tree, gain, up) ==
    IF tree = Leaf THEN Leaf
    ELSE After(low, After(gain,
             from_digital_tolerant(low, tree.payload, tree.children, gain, up,
                                   tolerance(FMul(low, gain), up))))

\* A faulty from_digital, to see which properties tell it apart: the gain
\* is 1 whatever the order.
from_digital_ungained(order, low, tree, up) == from_digital_inner(low, tree, Dyadic(1, 0), up)

\* from_digital.
from_digital(order, low, tree, up) == from_digital_inner(low, tree, gain_of(order), up)

\* What to_digital_inner returns: the digital tree and the two norms.
Digital(tree, error_norm, leaf_norm) ==
    [tree |-> tree, error_norm |-> error_norm, leaf_norm |-> leaf_norm]

\* A call that panicked returns no tree: the panic message stands in its
\* place and unwinds through every caller.
Panicked(message) == [panic |-> message]
IsPanic(tree) == "panic" \in DOMAIN tree

RECURSIVE to_digital_inner(_, _, _, _)

\* The body of the closure of `each` for one child: x = [children,
\* branch_error_norm, leaf_norm, panic] and r is what to_digital_inner
\* returned.
to_digital_push(x, r) ==
    IF x.panic # "" THEN x
    ELSE IF IsPanic(r.tree) THEN [x EXCEPT !.panic = r.tree.panic]
    ELSE After(r.leaf_norm,
          [children |-> Append(x.children, r.tree),
           branch_error_norm |-> FAdd(x.branch_error_norm, r.error_norm),
           leaf_norm |-> FAdd(x.leaf_norm, r.leaf_norm),
           panic |-> ""])

\* haar.zip(branch.children).each(...) from child i on.
to_digital_each4(x, haar_, children, gain, up) ==
    After(x.leaf_norm,
          to_digital_push(x, to_digital_inner(haar_[4], children[4], FDouble(gain), up)))

to_digital_each3(x, haar_, children, gain, up) ==
    After(x.leaf_norm,
          to_digital_each4(
              to_digital_push(x, to_digital_inner(haar_[3], children[3], FDouble(gain), up)),
              haar_, children, gain, up))

to_digital_each2(x, haar_, children, gain, up) ==
    After(x.leaf_norm,
          to_digital_each3(
              to_digital_push(x, to_digital_inner(haar_[2], children[2], FDouble(gain), up)),
              haar_, children, gain, up))

\* haar.zip(branch.children).each(...).
to_digital_children(x, haar_, children, gain, up) ==
    After(x.leaf_norm,
          to_digital_each2(
              to_digital_push(x, to_digital_inner(haar_[1], children[1], FDouble(gain), up)),
              haar_, children, gain, up))

\* A faulty decision, to see which properties tell it apart: equal norms
\* prune the Branch.
to_digital_choose_leaf_on_tie(bcc_, x, leaf_error_norm) ==
    IF ~FLess(x.branch_error_norm, leaf_error_norm)
    THEN Digital(Leaf, leaf_error_norm, x.leaf_norm)
    ELSE Digital(Tree_branch(bcc_, x.children), x.branch_error_norm, x.leaf_norm)

\* `if leaf_error_norm < branch_error_norm` of to_digital_inner.
to_digital_choose(bcc_, x, leaf_error_norm) ==
    IF FLess(leaf_error_norm, x.branch_error_norm)
    THEN Digital(Leaf, leaf_error_norm, x.leaf_norm)
    ELSE Digital(Tree_branch(bcc_, x.children), x.branch_error_norm, x.leaf_norm)

\* to_digital_inner from `let leaf_error_norm` on.
to_digital_leaf_or_branch(bcc_, x, sensitivity) ==
    IF x.panic # "" THEN Digital(Panicked(x.panic), Dyadic(0, 0), Dyadic(0, 0))
    ELSE After(x.leaf_norm,
          to_digital_choose(bcc_, x, FMul(x.leaf_norm, FMul(sensitivity, sensitivity))))

\* to_digital_inner from `let new_v` on, q being what quantize returned.
to_digital_quantized(low, vhc, children, gain, up, tolerance_, sensitivity, q) ==
    IF q.panic # "" THEN Digital(Panicked(q.panic), Dyadic(0, 0), Dyadic(0, 0))
    ELSE After(q.err2, to_digital_leaf_or_branch(
        q.val,
        to_digital_children([children |-> <<>>, branch_error_norm |-> q.err2,
                             leaf_norm |-> norm(vhc[1], vhc[2], vhc[3]),
                             panic |-> ""],
                            child_lows(low, dequantized(tolerance_, q.val)),
                            children, gain, up),
        sensitivity))

\* A faulty to_digital_inner, to see which properties tell it apart: the
\* payload is quantized without being multiplied by the sensitivity.
to_digital_insensitive(low, vhc, children, gain, up, tolerance_, sensitivity) ==
    After(sensitivity,
          to_digital_quantized(low, vhc, children, gain, up, tolerance_, sensitivity,
                               ShiftedBCC_quantize(vhc[1], vhc[2], vhc[3])))

\* to_digital_inner of a Branch from `let v` on.
to_digital_branch(low, vhc, children, gain, up, tolerance_, sensitivity) ==
    After(sensitivity,
          to_digital_quantized(low, vhc, children, gain, up, tolerance_, sensitivity,
                               ShiftedBCC_quantize(FMul(sensitivity, vhc[1]),
                                                   FMul(sensitivity, vhc[2]),
                                                   FMul(sensitivity, vhc[3]))))

\* to_digital_inner of a Branch from `let sensitivity` on.
to_digital_tolerant(low, vhc, children, gain, up, tolerance_) ==
    After(tolerance_,
          to_digital_branch(low, vhc, children, gain, up, tolerance_, FRecip(tolerance_)))

\* to_digital_inner.
to_digital_inner(low, tree, gain, up) ==
    IF tree = Leaf THEN Digital(Leaf, Dyadic(0, 0), Dyadic(0, 0))
    ELSE After(low, After(gain,
             to_digital_tolerant(low, tree.payload, tree.children, gain, up,
                                 tolerance(FMul(low, gain), up))))

\* to_digital.
to_digital(order, low, tree, up) == to_digital_inner(low, tree, gain_of(order), up).tree

(***************************************************************************)
(* The idle values a specification gives the variables of the others.      *)
(***************************************************************************)
IdleInterval ==
    /\ iv_a = WHOLE /\ iv_b = WHOLE /\ iv_model = new_inner(Pow2(31, 2))
    /\ iv_out = [op |-> "none"]

IdleCoder ==
    /\ stage = "idle" /\ writer = "none" /\ stream = <<>> /\ reader = "none"
    /\ sent = <<>> /\ received = <<>> /\ last = [op |-> "none"] /\ panic = ""

IdleBits ==
    /\ bs = BitString_default /\ bv = <<>> /\ bs_last = [op |-> "none"]

IdlePath ==
    /\ path = Path_default /\ stack = <<>>
    /\ path_last = [op |-> "none", panic |-> FALSE]

IdleHaar ==
    /\ haar = <<>> /\ haar_t = <<>> /\ haar_tt = <<>>

IdlePyramid ==
    /\ pyr_in = "none" /\ pyramid = "none" /\ pyr_last = [op |-> "none"]

IdleBCC ==
    /\ bcc = None /\ chain = None /\ bcc_last = [op |-> "none"]

IdleQuantizer ==
    /\ cbrt_up = FALSE /\ digital = None /\ analogue = None
    /\ quant_last = [op |-> "none"]

IdleRest == IdlePyramid /\ IdleBCC /\ IdleQuantizer

(***************************************************************************)
(* SpecInterval: Interval::contains, Interval::split and Interval::half    *)
(* applied to sampled Intervals and Splits.                                *)
(***************************************************************************)
\* The u32 bounds sampled: the ends, the binary fractions the coder's
\* constants use, and neighbours that make the division round either way.
SampleU32 ==
    {U32(0), U32(1), U32(2), U32(5), Pow2(30, 2), Pow2(31, 2),
     Add(Num(Pow2(31, 2)), Num(Pow2(30, 2))).val, Sub(Num(MAX), Num(U32(1))).val,
     MAX}

\* Intervals that Interval::new accepts.
SampleIntervals ==
    {Interval(b, a) : <<b, a>> \in {q \in SampleU32 \X SampleU32 : Interval_new(q[1], q[2]).ok}}

\* Splits as Split::new_inner builds them: both clamps, 1/8, fair, 6:1.
SampleSplits ==
    {new_inner(p) : p \in {U32(0), Pow2(29, 2), Pow2(31, 2), U32(613566757),
                           MAX}}

InitInterval ==
    /\ overflow_checks \in BOOLEAN
    /\ iv_a \in SampleIntervals
    /\ iv_b \in SampleIntervals
    /\ iv_model \in SampleSplits
    /\ iv_b = WHOLE \/ iv_model = new_inner(Pow2(31, 2))
    /\ iv_out = [op |-> "none"]
    /\ IdleCoder /\ IdleBits /\ IdlePath /\ IdleHaar /\ IdleRest

\* self.contains(other) with self = iv_a, other = iv_b.
CallContains ==
    /\ iv_out.op = "none"
    /\ iv_out' = [op |-> "contains", ret |-> contains(iv_a, iv_b)]
    /\ UNCHANGED <<overflow_checks, iv_a, iv_b, iv_model>>
    /\ UNCHANGED <<coder_vars, bits_vars, path_vars, haar_vars, rest_vars>>

\* self.split(model) with self = iv_a, model = iv_model.
CallSplit ==
    /\ iv_out.op = "none"
    /\ iv_out' = [op |-> "split", ret |-> split(iv_a, iv_model)]
    /\ UNCHANGED <<overflow_checks, iv_a, iv_b, iv_model>>
    /\ UNCHANGED <<coder_vars, bits_vars, path_vars, haar_vars, rest_vars>>

\* self.half() with self = iv_a.
CallHalf ==
    /\ iv_out.op = "none"
    /\ iv_out' = [op |-> "half", ret |-> half(iv_a)]
    /\ UNCHANGED <<overflow_checks, iv_a, iv_b, iv_model>>
    /\ UNCHANGED <<coder_vars, bits_vars, path_vars, haar_vars, rest_vars>>

NextInterval == CallContains \/ CallSplit \/ CallHalf

SpecInterval == InitInterval /\ [][NextInterval]_vars

(***************************************************************************)
(* SpecCoder: one encode/decode session.  A Writer over an empty byte      *)
(* vector takes up to MaxWrites writes and is closed, the BitWriter is     *)
(* closed, and a Reader over the bytes reads with the models written, in   *)
(* order, and then up to MaxExtraReads times more.                         *)
(***************************************************************************)
MaxWrites == 3
MaxExtraReads == 1

CoderSplits ==
    {new_inner(p) : p \in {U32(0), Pow2(31, 2), U32(613566757),
                           MAX}}

InitCoder ==
    /\ overflow_checks \in BOOLEAN
    /\ stage = "writing"
    /\ writer = Writer_new
    /\ stream = <<>>
    /\ reader = "none"
    /\ sent = <<>>
    /\ received = <<>>
    /\ last = [op |-> "Writer::new"]
    /\ panic = ""
    /\ IdleInterval /\ IdleBits /\ IdlePath /\ IdleHaar /\ IdleRest

\* writer.write(model, data)
Write(model, data) ==
    /\ stage = "writing"
    /\ Len(sent) < MaxWrites
    /\ LET r == Writer_write(writer, model, data)
       IN  /\ writer' = r.w
           /\ panic' = r.panic
           /\ stage' = IF r.panic # "" THEN "panicked" ELSE "writing"
    /\ sent' = Append(sent, [model |-> model, data |-> data])
    /\ last' = [op |-> "Writer::write", before |-> writer]
    /\ UNCHANGED <<overflow_checks, stream, reader, received>>
    /\ UNCHANGED <<interval_vars, bits_vars, path_vars, haar_vars, rest_vars>>

\* writer.close()
CloseWriter ==
    /\ stage = "writing"
    /\ writer' = Writer_close(writer)
    /\ stage' = "writer_closed"
    /\ last' = [op |-> "Writer::close", before |-> writer]
    /\ UNCHANGED <<overflow_checks, stream, reader, sent, received, panic>>
    /\ UNCHANGED <<interval_vars, bits_vars, path_vars, haar_vars, rest_vars>>

\* the BitWriter that Writer::close returned .close()
CloseBitWriter ==
    /\ stage = "writer_closed"
    /\ stream' = BitWriter_close(writer.inner)
    /\ stage' = "encoded"
    /\ last' = [op |-> "BitWriter::close"]
    /\ UNCHANGED <<overflow_checks, writer, reader, sent, received, panic>>
    /\ UNCHANGED <<interval_vars, bits_vars, path_vars, haar_vars, rest_vars>>

\* Reader::new(BitReader::new(stream))
NewReader ==
    /\ stage = "encoded"
    /\ reader' = Reader_new(BitReader_new(stream))
    /\ stage' = "reading"
    /\ last' = [op |-> "Reader::new"]
    /\ UNCHANGED <<overflow_checks, writer, stream, sent, received, panic>>
    /\ UNCHANGED <<interval_vars, bits_vars, path_vars, haar_vars, rest_vars>>

\* reader.read(model): the next model written, or any model once all the
\* symbols written have been read.
Read(model) ==
    /\ stage = "reading"
    /\ Len(received) < Len(sent) + MaxExtraReads
    /\ Len(received) < Len(sent) => model = sent[Len(received) + 1].model
    /\ LET r == Reader_read(reader, model)
       IN  /\ reader' = r.r
           /\ received' = Append(received, r.ret)
           /\ panic' = r.panic
           /\ stage' = IF r.panic # "" THEN "panicked" ELSE "reading"
    /\ last' = [op |-> "Reader::read", before |-> reader, model |-> model]
    /\ UNCHANGED <<overflow_checks, writer, stream, sent>>
    /\ UNCHANGED <<interval_vars, bits_vars, path_vars, haar_vars, rest_vars>>

\* reader.close()
CloseReader ==
    /\ stage = "reading"
    /\ LET r == Reader_close(reader)
       IN  /\ panic' = r.panic
           /\ stage' = IF r.panic # "" THEN "panicked" ELSE "reader_closed"
    /\ last' = [op |-> "Reader::close", before |-> reader]
    /\ UNCHANGED <<overflow_checks, writer, stream, reader, sent, received>>
    /\ UNCHANGED <<interval_vars, bits_vars, path_vars, haar_vars, rest_vars>>

NextCoder ==
    \/ \E model \in CoderSplits, data \in BOOLEAN : Write(model, data)
    \/ CloseWriter
    \/ CloseBitWriter
    \/ NewReader
    \/ \E model \in CoderSplits : Read(model)
    \/ CloseReader

SpecCoder == InitCoder /\ [][NextCoder]_vars

(***************************************************************************)
(* Inputs shared by SpecBits and SpecPath: the lists pushed are a run of   *)
(* one value followed by a run of another, of every length and with the   *)
(* change at every position.                                               *)
(***************************************************************************)
TwoRuns(s) ==
    \E k \in 0..Len(s) :
        /\ \A i \in 1..k : s[i] = s[1]
        /\ \A i \in (k + 1)..Len(s) : s[i] = s[Len(s)]

\* Option<bool> as BitString::pop and Iter::next return it.
Some(bit) == IF bit THEN "Some(true)" ELSE "Some(false)"

\* Vec::pop on the list s: what it returns.
Vec_pop(s) == IF s = <<>> THEN "None" ELSE Some(s[Len(s)])

(***************************************************************************)
(* SpecBits: a BitString and the Vec<bool> of tests::vec side by side,     *)
(* under any interleaving of push, pop, len and iter, up to MaxBits bits   *)
(* (more than one 64-bit word).                                            *)
(***************************************************************************)
MaxBits == 66

InitBits ==
    /\ overflow_checks \in BOOLEAN
    /\ bs = BitString_default
    /\ bv = <<>>
    /\ bs_last = [op |-> "default"]
    /\ IdleInterval /\ IdleCoder /\ IdlePath /\ IdleHaar /\ IdleRest

\* bs.push(bit); bv.push(bit)
BitsPush(bit) ==
    /\ Len(bv) < MaxBits
    /\ TwoRuns(Append(bv, bit))
    /\ bs' = BitString_push(bs, bit)
    /\ bv' = Append(bv, bit)
    /\ bs_last' = [op |-> "push"]
    /\ UNCHANGED <<overflow_checks, interval_vars, coder_vars,
                   path_vars, haar_vars, rest_vars>>

\* bs.pop(); bv.pop()
BitsPop ==
    /\ bs' = BitString_pop(bs).self
    /\ bv' = SubSeq(bv, 1, Len(bv) - 1)
    /\ bs_last' = [op |-> "pop", ret |-> BitString_pop(bs).ret, bv_ret |-> Vec_pop(bv)]
    /\ UNCHANGED <<overflow_checks, interval_vars, coder_vars,
                   path_vars, haar_vars, rest_vars>>

\* bs.len()
BitsLen ==
    /\ bs_last' = [op |-> "len", ret |-> BitString_len(bs)]
    /\ UNCHANGED <<overflow_checks, bs, bv>>
    /\ UNCHANGED <<interval_vars, coder_vars, path_vars, haar_vars, rest_vars>>

\* bs.iter() run until it returns None
BitsIter ==
    /\ bs_last' = [op |-> "iter", ret |-> Iter_collect(bs)]
    /\ UNCHANGED <<overflow_checks, bs, bv>>
    /\ UNCHANGED <<interval_vars, coder_vars, path_vars, haar_vars, rest_vars>>

NextBits ==
    \/ \E bit \in BOOLEAN : BitsPush(bit)
    \/ BitsPop
    \/ BitsLen
    \/ BitsIter

SpecBits == InitBits /\ [][NextBits]_vars

(***************************************************************************)
(* SpecPath: a Path and the stack of selectors it stands for, under any    *)
(* interleaving of push, pop, len and the pop-all / push-back of           *)
(* tests::round_trip.  A failed assertion ends the run.                    *)
(***************************************************************************)
Smalls == BOOLEAN \X BOOLEAN

InitPath ==
    /\ overflow_checks \in BOOLEAN
    /\ path = Path_default
    /\ stack = <<>>
    /\ path_last = [op |-> "default", panic |-> FALSE]
    /\ IdleInterval /\ IdleCoder /\ IdleBits /\ IdleHaar /\ IdleRest

\* path.push(small)
PathPush(small) ==
    /\ ~path_last.panic
    /\ TwoRuns(Append(stack, small))
    /\ path' = Path_push(path, small).self
    /\ stack' = IF Path_push(path, small).panic THEN stack ELSE Append(stack, small)
    /\ path_last' = [op |-> "push", panic |-> Path_push(path, small).panic,
                     depth |-> Len(stack)]
    /\ UNCHANGED <<overflow_checks, interval_vars, coder_vars,
                   bits_vars, haar_vars, rest_vars>>

\* path.pop()
PathPop ==
    /\ ~path_last.panic
    /\ path' = Path_pop(path).self
    /\ stack' = SubSeq(stack, 1, Len(stack) - 1)
    /\ path_last' = [op |-> "pop", panic |-> FALSE,
                     some |-> Path_pop(path).some,
                     small |-> Path_pop(path).small,
                     unchanged |-> Path_pop(path).self = path,
                     before |-> stack]
    /\ UNCHANGED <<overflow_checks, interval_vars, coder_vars,
                   bits_vars, haar_vars, rest_vars>>

\* path.len()
PathLen ==
    /\ ~path_last.panic
    /\ path_last' = [op |-> "len", panic |-> Path_len(path).panic,
                     len |-> Path_len(path).len]
    /\ UNCHANGED <<overflow_checks, path, stack>>
    /\ UNCHANGED <<interval_vars, coder_vars, bits_vars, haar_vars, rest_vars>>

\* smalls = path.iter().collect(); q = Path::default();
\* while let Some(small) = smalls.pop() { q.push(small); }
PathRoundTrip ==
    /\ ~path_last.panic
    /\ path_last' = [op |-> "round_trip",
                     panic |-> push_reversed(Path_default, Path_iter(path)).panic,
                     q |-> push_reversed(Path_default, Path_iter(path)).self]
    /\ UNCHANGED <<overflow_checks, path, stack>>
    /\ UNCHANGED <<interval_vars, coder_vars, bits_vars, haar_vars, rest_vars>>

NextPath ==
    \/ \E small \in Smalls : PathPush(small)
    \/ PathPop
    \/ PathLen
    \/ PathRoundTrip

SpecPath == InitPath /\ [][NextPath]_vars

(***************************************************************************)
(* SpecHaar: Haar::transform applied twice to a tile of four pixels, each  *)
(* an integer of magnitude up to MaxPixel.                                 *)
(***************************************************************************)
MaxPixel == 4

Pixels == {Dyadic(k, 0) : k \in (0 - MaxPixel)..MaxPixel}

InitHaar ==
    /\ overflow_checks \in BOOLEAN
    /\ haar \in {Haar_new(a, b, c, d) : a \in Pixels, b \in Pixels, c \in Pixels, d \in Pixels}
    /\ haar_t = <<>>
    /\ haar_tt = <<>>
    /\ IdleInterval /\ IdleCoder /\ IdleBits /\ IdlePath /\ IdleRest

\* h.transform(), and then .transform() on what it returned
Transform ==
    /\ haar_tt = <<>>
    /\ haar_t' = IF haar_t = <<>> THEN transform(haar) ELSE haar_t
    /\ haar_tt' = IF haar_t = <<>> THEN <<>> ELSE transform(haar_t)
    /\ UNCHANGED <<overflow_checks, haar>>
    /\ UNCHANGED <<interval_vars, coder_vars, bits_vars, path_vars, rest_vars>>

NextHaar == Transform

SpecHaar == InitHaar /\ [][NextHaar]_vars

(***************************************************************************)
(* SpecPyramid: Pyramid::from_pixels and then Pyramid::to_pixels, on grids *)
(* of the orders 0, 1 and 2, square and twice as wide as high, whose       *)
(* pixels follow a linear pattern over PixelValues times a power of two,   *)
(* and on the grid of tests::round_trip.                                   *)
(***************************************************************************)
Orders == 0..2

PixelValues == <<Dyadic(0, 0), Dyadic(1, 0), Dyadic(-1, 0), Dyadic(3, 2)>>

\* The powers of two that scale a pattern: 1 and 32.
PixelScales == {0, 5}

\* The value of the pattern abc = <<a, b, c>> at (y, x) (from 0).
PatternValue(abc, y, x) ==
    PixelValues[((abc[1] * y + abc[2] * x + abc[3]) % Len(PixelValues)) + 1]

\* The grid whose pixel at (y, x) is PatternValue(abc, y, x) * 2^scale.
PatternGrid(height, width, abc, scale) ==
    SubSeq([y \in 1..height |->
               SubSeq([x \in 1..width |->
                          Scaled(PatternValue(abc, y - 1, x - 1).m, scale,
                                 PatternValue(abc, y - 1, x - 1).e)],
                      1, width)],
           1, height)

\* The grid of tests::round_trip: 0.125 * (x * (15-x)) - 0.25 * (y * (7-y)).
TestGrid ==
    SubSeq([y \in 1..8 |->
               SubSeq([x \in 1..16 |->
                          FSub(Dyadic((x - 1) * (16 - x), 3), Dyadic((y - 1) * (8 - y), 2))],
                      1, 16)],
           1, 8)

PatternInputs ==
    {[order |-> order, is_smooth |-> is_smooth,
      pixels |-> PatternGrid(2^order, wide * 2^order, abc, scale)] :
        order \in Orders, is_smooth \in BOOLEAN, wide \in 1..2,
        abc \in (0..(Len(PixelValues) - 1)) \X (0..(Len(PixelValues) - 1))
                    \X (0..(Len(PixelValues) - 1)),
        scale \in PixelScales}

InitPyramid ==
    /\ overflow_checks = TRUE
    /\ pyr_in \in PatternInputs \cup {[order |-> 2, is_smooth |-> TRUE, pixels |-> TestGrid]}
    /\ pyramid = "none"
    /\ pyr_last = [op |-> "none"]
    /\ IdleInterval /\ IdleCoder /\ IdleBits /\ IdlePath /\ IdleHaar /\ IdleBCC /\ IdleQuantizer

\* Pyramid::from_pixels(order, is_smooth, pixels).
FromPixels ==
    /\ pyr_last.op = "none"
    /\ pyramid' = Pyramid_from_pixels(pyr_in.order, pyr_in.is_smooth, pyr_in.pixels)
    /\ pyr_last' = [op |-> "from_pixels", sets |-> 0]
    /\ UNCHANGED <<overflow_checks, pyr_in>>
    /\ UNCHANGED <<interval_vars, coder_vars, bits_vars, path_vars, haar_vars, bcc_vars,
                   quant_vars>>

\* self.to_pixels(is_smooth), which consumes the Pyramid.
ToPixels ==
    /\ pyr_last.op = "from_pixels"
    /\ pyr_last' = [op |-> "to_pixels", ret |-> Pyramid_to_pixels(pyramid, pyr_in.is_smooth)]
    /\ pyramid' = "none"
    /\ UNCHANGED <<overflow_checks, pyr_in>>
    /\ UNCHANGED <<interval_vars, coder_vars, bits_vars, path_vars, haar_vars, bcc_vars,
                   quant_vars>>

NextPyramid == FromPixels \/ ToPixels

SpecPyramid == InitPyramid /\ [][NextPyramid]_vars

(***************************************************************************)
(* SpecPyramidTree: Pyramid::get and Pyramid::set, up to MaxSets times, at *)
(* every Position of a Pyramid made by from_pixels, with sampled Trees and *)
(* with the Tree that get returns there.                                   *)
(***************************************************************************)
MaxSets == 1

TreeInputs ==
    {[order |-> 0, is_smooth |-> FALSE, pixels |-> PatternGrid(1, 1, <<1, 2, 1>>, 0)],
     [order |-> 1, is_smooth |-> TRUE, pixels |-> PatternGrid(2, 4, <<1, 2, 0>>, 0)],
     [order |-> 2, is_smooth |-> FALSE, pixels |-> PatternGrid(4, 4, <<1, 2, 0>>, 0)],
     [order |-> 2, is_smooth |-> TRUE, pixels |-> PatternGrid(4, 4, <<1, 3, 2>>, 0)]}

SamplePayloads ==
    <<<<Dyadic(1, 0), Dyadic(2, 0), Dyadic(3, 0)>>,
      <<Dyadic(-1, 0), Dyadic(1, 1), Dyadic(0, 0)>>>>

\* Trees of depth 0, 1, 2 and 3.
SampleTrees ==
    <<Leaf,
      Tree_branch(SamplePayloads[1], <<Leaf, Leaf, Leaf, Leaf>>),
      Tree_branch(SamplePayloads[2],
                  <<Tree_branch(SamplePayloads[1], <<Leaf, Leaf, Leaf, Leaf>>), Leaf, Leaf,
                    Tree_branch(SamplePayloads[2], <<Leaf, Leaf, Leaf, Leaf>>)>>),
      Tree_branch(SamplePayloads[1],
                  <<Leaf,
                    Tree_branch(SamplePayloads[2],
                                <<Leaf, Leaf,
                                  Tree_branch(SamplePayloads[1], <<Leaf, Leaf, Leaf, Leaf>>),
                                  Leaf>>),
                    Leaf, Leaf>>)>>

\* The Positions of self: level <= order() and yx inside size() << level.
Positions(self) ==
    {Position(level, <<y, x>>) :
        <<level, y, x>> \in
            {q \in (0..Pyramid_order(self))
                    \X (0..(Height(self.low) * 2^Pyramid_order(self) - 1))
                    \X (0..(Width(self.low) * 2^Pyramid_order(self) - 1)) :
                q[2] < Height(self.low) * 2^q[1] /\ q[3] < Width(self.low) * 2^q[1]}}

InitPyramidTree ==
    /\ overflow_checks = TRUE
    /\ pyr_in \in TreeInputs
    /\ pyramid = "none"
    /\ pyr_last = [op |-> "none"]
    /\ IdleInterval /\ IdleCoder /\ IdleBits /\ IdlePath /\ IdleHaar /\ IdleBCC /\ IdleQuantizer

\* self.get(pos).
Get ==
    /\ pyr_last.op \in {"from_pixels", "get", "set"}
    /\ \E pos \in Positions(pyramid) :
        pyr_last' = [op |-> "get", pos |-> pos, ret |-> Pyramid_get(pyramid, pos),
                     sets |-> pyr_last.sets]
    /\ UNCHANGED <<overflow_checks, pyr_in, pyramid>>
    /\ UNCHANGED <<interval_vars, coder_vars, bits_vars, path_vars, haar_vars, bcc_vars,
                   quant_vars>>

\* self.set(pos, &tree).
Set ==
    /\ pyr_last.op \in {"from_pixels", "get", "set"}
    /\ pyr_last.sets < MaxSets
    /\ \E pos \in Positions(pyramid) :
        \E tree \in {SampleTrees[i] : i \in 1..Len(SampleTrees)}
                        \cup {Pyramid_get(pyramid, pos)} :
            /\ pyramid' = Pyramid_set(pyramid, pos, tree)
            /\ pyr_last' = [op |-> "set", pos |-> pos, tree |-> tree, before |-> pyramid,
                            sets |-> pyr_last.sets + 1]
    /\ UNCHANGED <<overflow_checks, pyr_in>>
    /\ UNCHANGED <<interval_vars, coder_vars, bits_vars, path_vars, haar_vars, bcc_vars,
                   quant_vars>>

NextPyramidTree == FromPixels \/ Get \/ Set

SpecPyramidTree == InitPyramidTree /\ [][NextPyramidTree]_vars

(***************************************************************************)
(* Properties of the arithmetic coder (SpecCoder, SpecInterval).           *)
(***************************************************************************)
\* The bit a read returns, as received records it.
Bit(data) == IF data THEN "true" ELSE "false"

\* C1: round trip.  Every read made with the model of the matching write
\* returns the bit written, in order, and neither an error nor a panic.
RoundTrip ==
    \A i \in 1..Len(received) :
        i <= Len(sent) => received[i] = Bit(sent[i].data)

\* a contains b with both ends included.
includes(a, b) == Le(a.below, b.below) /\ Le(a.above, b.above)

\* C2: in every decoder state the fair interval lies inside the unfair one,
\* and the assertion unfair.contains(fair) of Reader::read and Reader::close
\* never fails.
FairInsideUnfair ==
    last.op \in {"Reader::new", "Reader::read", "Reader::close"} =>
        /\ includes(reader.unfair, reader.fair)
        /\ panic # "assert!(self.unfair.contains(self.fair))"

\* C3: Interval::contains is inclusive: a.contains(b) is true iff
\* a.below <= b.below and a.above <= b.above.
ContainsIsInclusive ==
    iv_out.op = "contains" => iv_out.ret = includes(iv_a, iv_b)

\* x / 2^32 rounded half to even, from the limbs of the u64 x, by quotient
\* and remainder; `of` says that it is 2^32, which no u32 holds.
RoundHalfEven(x) ==
    IF \/ Lt(Pow2(31, 2), SubSeq(x, 1, 2))
       \/ (SubSeq(x, 1, 2) = Pow2(31, 2) /\ x[3] % 2 = 1)
    THEN Add(Num(SubSeq(x, 3, 4)), Num(U32(1)))
    ELSE Num(SubSeq(x, 3, 4))

\* (I.below * p1 + (2^32 - I.above) * (2^32 - p1)) / 2^32 rounded half to even.
SplitPoint(I, model) ==
    RoundHalfEven(Add(Mul64(Num(AsU64(I.below)), Num(AsU64(model.p1))),
                      Mul64(Sub(Num(SCALE), Num(AsU64(I.above))),
                            Sub(Num(SCALE), Num(AsU64(model.p1))))).val)

\* What I.split is said to return, s, given the split point sp: the halves
\* share I's outer boundaries and meet at sp.
MeetsAt(I, s, sp) ==
    /\ s.panic = ""
    /\ s.i0.below = I.below
    /\ s.i1.above = I.above
    /\ Add(Num(s.i1.below), Num(s.i0.above)) = [val |-> U32(0), of |-> TRUE]
    /\ ~sp.of
    /\ s.i1.below = sp.val

\* The split point lies strictly inside I: I.below < sp < 2^32 - I.above.
Inside(I, sp) ==
    /\ ~sp.of
    /\ Lt(I.below, sp.val)
    /\ ~Add(Num(sp.val), Num(I.above)).of

\* C4 as stated: for every valid Interval I and every Split, I.split(model)
\* returns halves that share I's outer boundaries and meet at the split
\* point rounded half to even.
SplitMeetsAtSplitPoint ==
    iv_out.op = "split" =>
        MeetsAt(iv_a, iv_out.ret, SplitPoint(iv_a, iv_model))

\* C4: for every valid Interval I and every Split whose split point, rounded
\* half to even, lies strictly inside I, I.split(model) returns halves that
\* share I's outer boundaries and meet at that point.
SplitInsideMeetsAtSplitPoint ==
    (iv_out.op = "split" /\ Inside(iv_a, SplitPoint(iv_a, iv_model))) =>
        MeetsAt(iv_a, iv_out.ret, SplitPoint(iv_a, iv_model))

\* MIDDLE split with p1 = 2^32 / 8 gives I0.above = 5/16 and I1.below = 11/16
\* of 2^32.
SplitOfMiddle ==
    /\ iv_out.op = "split"
    /\ iv_a = MIDDLE
    /\ iv_model = new_inner(Pow2(29, 2))
    /\ iv_out.ret.panic = ""
    /\ iv_out.ret.i0.above = Mul32(Num(U32(5)), Num(Pow2(28, 2))).val
    /\ iv_out.ret.i1.below = Mul32(Num(U32(11)), Num(Pow2(28, 2))).val

\* Both halves s of I are non-empty and strictly narrower than I.
Narrows(I, s) ==
    /\ s.panic = ""
    /\ Lt(I.below, s.i1.below)
    /\ Lt(I.above, s.i0.above)

\* C5: for every working interval reachable between Writer::write calls and
\* every Split, both halves returned by split are non-empty and strictly
\* narrower than the interval.
SplitMakesProgress ==
    stage = "writing" =>
        \A model \in CoderSplits : Narrows(writer.unfair, split(writer.unfair, model))

\* The bits a BitWriter has taken so far, oldest first.
written(bw) ==
    [k \in 1..(8 * Len(bw.inner) + (CHOOSE n \in 0..7 : 2^n = bw.bit)) |->
        IF k <= 8 * Len(bw.inner)
        THEN (bw.inner[(k - 1) \div 8 + 1] \div 2^((k - 1) % 8)) % 2 = 1
        ELSE (bw.buffer \div 2^((k - 1) % 8)) % 2 = 1]

\* What Writer::close is said to add to the n bits written before it, given
\* the pending count and the first bit: the first bit, the pending copies of
\* its inverse, and at most one more inverse.
Closes(after, n, pending, first) ==
    /\ Len(after) >= n + 1 + pending
    /\ after[n + 1] = first
    /\ \A k \in 1..pending : after[n + 1 + k] = ~first
    /\ Len(after) <= n + 2 + pending
    /\ Len(after) = n + 2 + pending => after[n + 2 + pending] = ~first

\* C6: Writer::close, in every state reachable after any sequence of writes,
\* emits at least one disambiguating bit (0 if above > below and 1
\* otherwise), its inverse at most once more, and every pending
\* middle_count bit, so that none is left when it returns.
CloseEmitsAndFlushes ==
    last.op = "Writer::close" =>
        /\ Closes(written(writer.inner), Len(written(last.before.inner)),
                  last.before.middle_count,
                  ~Lt(last.before.unfair.below, last.before.unfair.above))
        /\ writer.middle_count = 0

\* Reader::read would run out of bits before it decides the symbol: its
\* first loop, entered from r with this model, reaches the end of the
\* stream.
Exhausts(r, model) ==
    read_subdivide(r, split(r.unfair, model)).ret = "eof"

\* C7: when the bit stream is exhausted before Reader::read can decide the
\* symbol, read returns the end-of-stream error, does not panic, and leaves
\* the unfair interval unchanged.
EndOfStreamIsReturned ==
    (last.op = "Reader::read" /\ Exhausts(last.before, last.model)) =>
        /\ received[Len(received)] = "eof"
        /\ panic = ""
        /\ reader.unfair = last.before.unfair

(***************************************************************************)
(* Properties of BitString (SpecBits).                                     *)
(***************************************************************************)
\* What iter() yields for the list s: its bits in push order, then None.
Listed(s) == [i \in 1..(Len(s) + 1) |-> IF i <= Len(s) THEN Some(s[i]) ELSE "None"]

\* C8: BitString refines a list of booleans: after any interleaving of push
\* and pop, len() is the list length, pop() returns what the list's pop
\* returns (None iff the list is empty), and iter() yields the list's bits
\* in push order followed by None.
BitStringRefinesList ==
    /\ BitString_len(bs) = Len(bv)
    /\ bs_last.op = "len" => bs_last.ret = Len(bv)
    /\ bs_last.op = "pop" => bs_last.ret = bs_last.bv_ret
    /\ bs_last.op = "iter" => bs_last.ret = Listed(bv)

\* iter() has run over a list that is longer than one 64-bit word and holds
\* both bit values.
IterAcrossWords ==
    /\ bs_last.op = "iter"
    /\ Len(bv) = WordBits + 2
    /\ bv[1] # bv[Len(bv)]
    /\ Len(bs.words) = 1

(***************************************************************************)
(* Properties of Path (SpecPath).                                          *)
(***************************************************************************)
\* The selectors of the stack s in the order pop returns them.
Popped(s) == [i \in 1..Len(s) |-> s[Len(s) + 1 - i]]

\* C9: Path refines a LIFO stack of selectors with capacity 15: len() is the
\* stack depth, pop() returns the last selector pushed and not yet popped
\* (None iff the stack is empty, leaving the Path unchanged), push panics
\* exactly when the depth is 15, and popping every selector and pushing them
\* back in reverse order gives the identical Path.
PathRefinesStack ==
    /\ Len(stack) <= 15
    /\ Path_iter(path) = Popped(stack)
    /\ path_last.op = "len" => ~path_last.panic /\ path_last.len = Len(stack)
    /\ path_last.op = "pop" =>
        /\ path_last.some = (path_last.before # <<>>)
        /\ path_last.some => path_last.small = path_last.before[Len(path_last.before)]
        /\ ~path_last.some => path_last.unchanged
    /\ path_last.op = "push" => (path_last.panic <=> path_last.depth = 15)
    /\ path_last.op = "round_trip" => ~path_last.panic /\ path_last.q = path

\* push has panicked on a Path that holds 15 selectors, not all the same.
PushOverflows ==
    /\ path_last.op = "push"
    /\ path_last.panic
    /\ Len(stack) = 15
    /\ stack[1] # stack[15]

(***************************************************************************)
(* Properties of Haar (SpecHaar).                                          *)
(***************************************************************************)
\* Every value of the tile is one that f32 holds exactly.
AllExact(tile) == \A i \in 1..Len(tile) : Exact(tile[i])

\* C10: Haar::transform is its own inverse: h.transform().transform() equals
\* h, for inputs on which the arithmetic is exact.
TransformIsSelfInverse ==
    (haar_tt # <<>> /\ AllExact(haar) /\ AllExact(haar_t)) => haar_tt = haar

\* Both transforms have run on the tile [[1, 4], [2, 3]] of tests::haar,
\* whose halved pixels are not all integers.
TransformedTwice ==
    /\ haar_tt # <<>>
    /\ haar = Haar_new(Dyadic(1, 0), Dyadic(4, 0), Dyadic(2, 0), Dyadic(3, 0))
    /\ haar_t[1] = Dyadic(5, 0)
    /\ haar_t[2] = Dyadic(-2, 0)

(***************************************************************************)
(* C11.                                                                    *)
(***************************************************************************)
\* The sign patterns of the four outputs, over (a, b, c, d).
SignPatterns ==
    << <<1, 1, 1, 1>>, <<1, -1, 1, -1>>, <<1, 1, -1, -1>>, <<1, -1, -1, 1>> >>

\* The signed sum of the integer tile under the i-th pattern.
SignedSum(tile, i) ==
    SignPatterns[i][1] * tile[1].m + SignPatterns[i][2] * tile[2].m
        + SignPatterns[i][3] * tile[3].m + SignPatterns[i][4] * tile[4].m

TestTile == Haar_new(Dyadic(1, 0), Dyadic(4, 0), Dyadic(2, 0), Dyadic(3, 0))

\* C11 as stated: each output of Haar::transform is one-quarter of the signed
\* sum of the inputs under (++++), (+-+-), (++--), (+--+), and the tile
\* [[1, 4], [2, 3]] gives LL = 2.5, LH = 0.0, HL = 0.0, HH = -1.0.
TransformQuartersSignedSums ==
    haar_t # <<>> =>
        /\ \A i \in 1..4 : haar_t[i] = Dyadic(SignedSum(haar, i), 2)
        /\ haar = TestTile =>
                haar_t = Haar_new(Dyadic(5, 1), Dyadic(0, 0), Dyadic(0, 0),
                                  Dyadic(-1, 0))

\* C11: each output of Haar::transform is one-half of the signed sum of the
\* inputs under (++++), (+-+-), (++--), (+--+), and the tile [[1, 4], [2, 3]]
\* gives LL = 5.0, LH = -2.0, HL = 0.0, HH = -1.0.
TransformHalvesSignedSums ==
    haar_t # <<>> =>
        /\ \A i \in 1..4 : haar_t[i] = Dyadic(SignedSum(haar, i), 1)
        /\ haar = TestTile =>
                haar_t = Haar_new(Dyadic(5, 0), Dyadic(-2, 0), Dyadic(0, 0),
                                  Dyadic(-1, 0))

\* The test tile has been transformed once.
TestTileTransformed ==
    haar = TestTile /\ haar_t # <<>> /\ haar_tt = <<>> /\ haar_t[4] = Dyadic(-1, 0)

(***************************************************************************)
(* C12.  The round trip of a Pyramid.                                      *)
(***************************************************************************)
\* |x - y| < 1e-5: the difference m / 2^e, which f32 computes exactly when
\* x and y are this close, is below 10^-5 = 10995116.27... / 2^40.
Within(d) ==
    \/ d.m = 0
    \/ d.e - BitLen(Abs(d.m)) > 16
    \/ /\ d.e - BitLen(Abs(d.m)) = 16
       /\ Abs(d.m) * 2^(24 - BitLen(Abs(d.m))) <= 10995116

\* g and h have the same dimensions and are equal elementwise to within 1e-5.
GridsClose(g, h) ==
    /\ Height(g) = Height(h)
    /\ Width(g) = Width(h)
    /\ \A y \in 1..Height(g) : \A x \in 1..Width(g) : Within(FSub(g[y][x], h[y][x]))

\* Every pixel of g has magnitude at most 1.
UnitGrid(g) ==
    \A y \in 1..Height(g) : \A x \in 1..Width(g) : Abs(g[y][x].m) <= 2^(g[y][x].e)

RECURSIVE Depth(_)
Depth(tree) ==
    IF tree = Leaf THEN 0
    ELSE 1 + SetMax({Depth(tree.children[i]) : i \in 1..4})

ZeroPayload == <<Dyadic(0, 0), Dyadic(0, 0), Dyadic(0, 0)>>

\* What tree says of the cell k levels below its root at (y, x) within its
\* tile: the payload of the Branch there, or 0.0 if a Leaf covers it.
RECURSIVE PayloadAt(_, _, _, _)
PayloadAt(tree, k, y, x) ==
    IF tree = Leaf THEN ZeroPayload
    ELSE IF k = 0 THEN tree.payload
    ELSE PayloadAt(tree.children[2 * (y \div 2^(k - 1)) + (x \div 2^(k - 1)) + 1],
                   k - 1, y % 2^(k - 1), x % 2^(k - 1))

\* tree with each blank subtree expanded to zero-payload branches down to
\* depth levels.
RECURSIVE Expanded(_, _)
Expanded(tree, depth) ==
    IF depth = 0 THEN Leaf
    ELSE IF tree = Leaf
        THEN Tree_branch(ZeroPayload,
                         <<Expanded(Leaf, depth - 1), Expanded(Leaf, depth - 1),
                           Expanded(Leaf, depth - 1), Expanded(Leaf, depth - 1)>>)
    ELSE Tree_branch(tree.payload,
                     <<Expanded(tree.children[1], depth - 1),
                       Expanded(tree.children[2], depth - 1),
                       Expanded(tree.children[3], depth - 1),
                       Expanded(tree.children[4], depth - 1)>>)

\* The cells of self under pos, as <<level - pos.level, y, x>> with (y, x)
\* counted within the tile of pos.
CellsUnder(self, pos) ==
    {q \in (0..(Pyramid_order(self) - 1 - pos.level))
            \X (0..(2^Pyramid_order(self) - 1)) \X (0..(2^Pyramid_order(self) - 1)) :
        q[2] < 2^q[1] /\ q[3] < 2^q[1]}

\* The components that self holds at the cell q under pos.
CellUnder(self, pos, q) ==
    self.highs[pos.level + q[1] + 1][pos.yx[1] * 2^q[1] + q[2] + 1]
              [pos.yx[2] * 2^q[1] + q[3] + 1]

MaxHalves == 8
MaxQuarters == 6

Halves == {Dyadic(k, 1) : k \in (0 - MaxHalves)..MaxHalves}
Quarters == {Dyadic(k, 2) : k \in (0 - MaxQuarters)..MaxQuarters}

\* Triples far from the origin: lattice points of both parities, and a
\* triple of integers of unequal parity.
FarNewInputs ==
    {<<Dyadic(8001, 0), Dyadic(-6000, 0), Dyadic(4001, 1)>>,
     <<Dyadic(-8000, 0), Dyadic(6001, 0), Dyadic(-3997, 1)>>,
     <<Dyadic(8001, 0), Dyadic(-6000, 0), Dyadic(4003, 1)>>}

FarQuantizeInputs ==
    {<<Dyadic(32005, 2), Dyadic(-24003, 2), Dyadic(8001, 2)>>,
     <<Dyadic(-32001, 2), Dyadic(24006, 2), Dyadic(-7995, 2)>>}

NewInputs == (Halves \X Halves \X Halves) \cup FarNewInputs
QuantizeInputs == (Quarters \X Quarters \X Quarters) \cup FarQuantizeInputs

InitBCC ==
    /\ overflow_checks \in BOOLEAN
    /\ IdleBCC
    /\ IdleInterval /\ IdleCoder /\ IdleBits /\ IdlePath /\ IdleHaar /\ IdlePyramid
    /\ IdleQuantizer

BCCUnchanged ==
    UNCHANGED <<overflow_checks, interval_vars, coder_vars, bits_vars, path_vars,
                haar_vars, pyramid_vars, quant_vars>>

\* What a call that returns a ShiftedBCC leaves in bcc.
Returned(ret) == IF ret.panic = "" THEN ret.val ELSE None

\* ShiftedBCC::new(v, h, c).
New ==
    \E x \in NewInputs :
        /\ bcc_last.op = "none"
        /\ bcc' = Returned(new_of(x))
        /\ chain' = None
        /\ bcc_last' = [op |-> "new", vhc |-> x, panic |-> new_of(x).panic]
        /\ BCCUnchanged

\* ShiftedBCC::quantize(v, h, c).
Quantize ==
    \E x \in QuantizeInputs :
        /\ bcc_last.op = "none"
        /\ bcc' = Returned(ShiftedBCC_quantize(x[1], x[2], x[3]))
        /\ chain' = None
        /\ bcc_last' = [op |-> "quantize", vhc |-> x,
                        panic |-> ShiftedBCC_quantize(x[1], x[2], x[3]).panic,
                        err2 |-> ShiftedBCC_quantize(x[1], x[2], x[3]).err2]
        /\ BCCUnchanged

\* bcc.arrow().
Arrow ==
    /\ bcc # None
    /\ bcc' = IF ShiftedBCC_arrow(bcc).panic = "" THEN ShiftedBCC_arrow(bcc).b ELSE None
    /\ chain' = None
    /\ bcc_last' = [op |-> "arrow", self |-> bcc, panic |-> ShiftedBCC_arrow(bcc).panic,
                    r |-> ShiftedBCC_arrow(bcc).r]
    /\ BCCUnchanged

\* Chain::from_bcc(bcc).
FromBcc ==
    /\ bcc # None
    /\ chain' = Chain_from_bcc(bcc).val
    /\ bcc_last' = [op |-> "from_bcc", panic |-> Chain_from_bcc(bcc).panic]
    /\ UNCHANGED bcc
    /\ BCCUnchanged

\* chain.to_bcc().
ToBcc ==
    /\ chain # None
    /\ bcc' = Returned(Chain_to_bcc(chain))
    /\ bcc_last' = [op |-> "to_bcc", before |-> bcc, panic |-> Chain_to_bcc(chain).panic]
    /\ UNCHANGED chain
    /\ BCCUnchanged

\* chain.apply_symmetry(s), of the Chain from_bcc made or of the Chain a
\* first symmetry made of it.  `origin` is then the Chain before the first
\* symmetry and `first` the first symmetry.
ChainApplySymmetry ==
    \E s \in ALL_SYMMETRIES :
        /\ chain # None
        /\ \/ bcc_last.op = "from_bcc" /\ bcc_last.panic = ""
           \/ bcc_last.op = "chain_apply_symmetry" /\ bcc_last.origin = None
        /\ chain' = Chain_apply_symmetry(chain, s)
        /\ bcc_last' = [op |-> "chain_apply_symmetry", self |-> chain, s |-> s,
                        origin |-> IF bcc_last.op = "from_bcc" THEN None ELSE bcc_last.self,
                        first |-> IF bcc_last.op = "from_bcc" THEN s ELSE bcc_last.s]
        /\ UNCHANGED bcc
        /\ BCCUnchanged

\* r.apply_symmetry(s).apply_symmetry(t).
ResidualApplySymmetry ==
    \E r \in ALL_RESIDUALS, s \in ALL_SYMMETRIES, t \in ALL_SYMMETRIES :
        /\ bcc_last.op = "none"
        /\ bcc_last' = [op |-> "apply_symmetry", r |-> r, s |-> s, t |-> t,
                        rs |-> Residual_apply_symmetry(r, s),
                        rst |-> Residual_apply_symmetry(Residual_apply_symmetry(r, s), t)]
        /\ bcc' = None
        /\ chain' = None
        /\ BCCUnchanged

NextBCC ==
    \/ New
    \/ Quantize
    \/ Arrow
    \/ FromBcc
    \/ ToBcc
    \/ ChainApplySymmetry
    \/ ResidualApplySymmetry

SpecBCC == InitBCC /\ [][NextBCC]_vars

(***************************************************************************)
(* C14.  ShiftedBCC::new(v, h, c) panics for every triple that is not a    *)
(* point of the shifted BCC lattice (v - 1, h and c - 0.5 integers of      *)
(* equal parity); the stored coordinates of a ShiftedBCC never have        *)
(* unequal parity; and for a lattice point new(v, h, c).vhc() is           *)
(* (v, h, c).                                                              *)
(***************************************************************************)
\* x = <<v, h, c>> is a point of the shifted BCC lattice.
LatticePoint(x) ==
    /\ x[1].e = 0 /\ x[2].e = 0 /\ x[3].e = 1
    /\ (x[1].m - 1) % 2 = x[2].m % 2
    /\ x[2].m % 2 = ((x[3].m - 1) \div 2) % 2

EqualParity(self) == self.v % 2 = self.c % 2 /\ self.h % 2 = self.c % 2

NewAcceptsLatticePointsOnly ==
    /\ bcc # None => EqualParity(bcc)
    /\ bcc_last.op = "new" =>
           IF LatticePoint(bcc_last.vhc)
           THEN bcc_last.panic = "" /\ ShiftedBCC_vhc(bcc) = bcc_last.vhc
           ELSE bcc_last.panic # ""

(***************************************************************************)
(* C15.  ShiftedBCC::quantize returns a point of the lattice that is a     *)
(* nearest lattice point to the input; err2 is the squared Euclidean       *)
(* distance from the input to it and is at most 1.25; and when the nearest *)
(* points of the two sublattices are equidistant, the one of the second    *)
(* sublattice (odd stored coordinates) is returned.  Distances are         *)
(* computed here in integers, in units of a quarter.                       *)
(***************************************************************************)
\* The coordinate x, a multiple of 1/4, in quarters.
InQuarters(x) == x.m * 2^(2 - x.e)

\* The lattice point with stored coordinates p, in quarters.
PointInQuarters(p) == <<4 * (p[1] + 1), 4 * p[2], 4 * p[3] + 2>>

Square(n) == n * n

\* 16 times the squared distance from the input x to the lattice point p.
Dist16(x, p) ==
    Square(InQuarters(x[1]) - PointInQuarters(p)[1])
    + Square(InQuarters(x[2]) - PointInQuarters(p)[2])
    + Square(InQuarters(x[3]) - PointInQuarters(p)[3])

Around(n) == ((n \div 4) - 3)..((n \div 4) + 2)

\* The lattice points of the sublattice of the given parity around x.
Sublattice(x, parity) ==
    {p \in Around(InQuarters(x[1])) \X Around(InQuarters(x[2])) \X Around(InQuarters(x[3])) :
        p[1] % 2 = parity /\ p[2] % 2 = parity /\ p[3] % 2 = parity}

\* 16 times the squared distance from x to the sublattice.
MinDist16(x, parity) ==
    CHOOSE d \in {Dist16(x, p) : p \in Sublattice(x, parity)} :
        \A p \in Sublattice(x, parity) : d <= Dist16(x, p)

Stored(self) == <<self.v, self.h, self.c>>

Equidistant(x) == MinDist16(x, 0) = MinDist16(x, 1)

QuantizeIsNearest ==
    bcc_last.op = "quantize" =>
        /\ bcc_last.panic = ""
        /\ EqualParity(bcc)
        /\ bcc_last.err2 = Dyadic(Dist16(bcc_last.vhc, Stored(bcc)), 4)
        /\ Dist16(bcc_last.vhc, Stored(bcc)) <= MinDist16(bcc_last.vhc, 0)
        /\ Dist16(bcc_last.vhc, Stored(bcc)) <= MinDist16(bcc_last.vhc, 1)
        /\ Dist16(bcc_last.vhc, Stored(bcc)) <= 20
        /\ Equidistant(bcc_last.vhc) => bcc.c % 2 = 1

\* A deepest hole of the lattice, equally far from both sublattices, was
\* quantized.
QuantizedDeepHole ==
    /\ bcc_last.op = "quantize"
    /\ bcc_last.err2 = Dyadic(5, 2)
    /\ Equidistant(bcc_last.vhc)

(***************************************************************************)
(* C16.  For every lattice point A, A.arrow() = (B, R) where B is          *)
(* ShiftedBCC::quantize(A/2).0, R.vhc() is A/2 - B componentwise, R is one *)
(* of the 8 residuals of the table, and B passes the parity assertion.     *)
(***************************************************************************)
Halved(vhc) == <<FHalf(vhc[1]), FHalf(vhc[2]), FHalf(vhc[3])>>

Difference(x, y) == <<FSub(x[1], y[1]), FSub(x[2], y[2]), FSub(x[3], y[3])>>

quantize_of(vhc) == ShiftedBCC_quantize(vhc[1], vhc[2], vhc[3])

ArrowQuantizesHalf ==
    bcc_last.op = "arrow" =>
        /\ bcc_last.panic = ""
        /\ EqualParity(bcc)
        /\ bcc_last.r \in ALL_RESIDUALS
        /\ bcc = quantize_of(Halved(ShiftedBCC_vhc(bcc_last.self))).val
        /\ Residual_vhc(bcc_last.r)
               = Difference(Halved(ShiftedBCC_vhc(bcc_last.self)), ShiftedBCC_vhc(bcc))

\* arrow was followed from a point of the odd class with negative
\* coordinates that is not a fixed point.
ArrowFromNegativeOddPoint ==
    /\ bcc_last.op = "arrow"
    /\ bcc_last.self.v < -2 /\ bcc_last.self.h < 0 /\ bcc_last.self.c < 0
    /\ bcc_last.self.c % 2 = 1
    /\ bcc # bcc_last.self

(***************************************************************************)
(* C17.  A ShiftedBCC P is a fixed point of arrow iff it is one of the     *)
(* four shortest lattice points (1, 0, 0.5), (-1, 0, 0.5), (0, 1, -0.5),   *)
(* (0, -1, -0.5); every Chain ends at one of exactly those points; and for *)
(* each of them Chain::from_bcc yields no residuals and a last_residual    *)
(* whose fixed_point() is P.  As stated it fails; it holds of the eight    *)
(* points of tests::FIXED_POINTS.                                          *)
(***************************************************************************)
FourShortest ==
    {<<Dyadic(1, 0), Dyadic(0, 0), Dyadic(1, 1)>>,
     <<Dyadic(-1, 0), Dyadic(0, 0), Dyadic(1, 1)>>,
     <<Dyadic(0, 0), Dyadic(1, 0), Dyadic(-1, 1)>>,
     <<Dyadic(0, 0), Dyadic(-1, 0), Dyadic(-1, 1)>>}

FIXED_POINTS ==
    {<<Dyadic(0, 0), Dyadic(-1, 0), Dyadic(3, 1)>>,
     <<Dyadic(0, 0), Dyadic(1, 0), Dyadic(3, 1)>>,
     <<Dyadic(-1, 0), Dyadic(0, 0), Dyadic(1, 1)>>,
     <<Dyadic(1, 0), Dyadic(0, 0), Dyadic(1, 1)>>,
     <<Dyadic(0, 0), Dyadic(-1, 0), Dyadic(-1, 1)>>,
     <<Dyadic(0, 0), Dyadic(1, 0), Dyadic(-1, 1)>>,
     <<Dyadic(-1, 0), Dyadic(0, 0), Dyadic(-3, 1)>>,
     <<Dyadic(1, 0), Dyadic(0, 0), Dyadic(-3, 1)>>}

\* The fixed points of arrow are exactly `points`, every Chain ends at one
\* of them, and from_bcc of each of them is the Chain without residuals
\* whose last_residual has it as fixed_point().
FixedPointsAre(points) ==
    /\ (bcc_last.op = "arrow" /\ bcc_last.panic = "") =>
           (bcc = bcc_last.self <=> ShiftedBCC_vhc(bcc_last.self) \in points)
    /\ (bcc_last.op = "from_bcc" /\ bcc_last.panic = "") =>
           /\ Residual_fixed_point(chain.last_residual) \in points
           /\ ShiftedBCC_vhc(bcc) \in points =>
                  /\ chain.residuals = <<>>
                  /\ Residual_fixed_point(chain.last_residual) = ShiftedBCC_vhc(bcc)

RoundTripped ==
    /\ bcc_last.op = "to_bcc"
    /\ bcc_last.before # None
    /\ chain = Chain_from_bcc(bcc_last.before).val

ChainRoundTrip ==
    RoundTripped => bcc_last.panic = "" /\ bcc = bcc_last.before

\* The round trip of a point far from the origin, through a long Chain.
LongChainRoundTripped ==
    /\ RoundTripped
    /\ Len(chain.residuals) >= 10
    /\ bcc.v < 0

(***************************************************************************)
(* C19.  The symmetries act on residuals by XOR of a 2-bit tag:            *)
(* r.apply_symmetry(s).apply_symmetry(t) is r under the symmetry with tag  *)
(* s XOR t; every symmetry is its own inverse on residuals and on whole    *)
(* Chains; and a symmetry never moves a residual between the classes       *)
(* {0..3} and {4..7}.                                                      *)
(***************************************************************************)
\* s XOR t of two tags, tabulated.
TagXor(s, t) == <<<<0, 1, 2, 3>>, <<1, 0, 3, 2>>, <<2, 3, 0, 1>>, <<3, 2, 1, 0>>>>[s + 1][t + 1]

\* The residual r under the symmetry with tag s, tabulated from bits 0 and
\* 1 of r.
Moved(r, s) == 4 * (r \div 4) + TagXor(r % 4, s)

ResidualClass(r) == r \div 4

SymmetriesActByXor ==
    /\ bcc_last.op = "apply_symmetry" =>
           /\ bcc_last.rs = Moved(bcc_last.r, bcc_last.s)
           /\ bcc_last.rst = Moved(bcc_last.r, TagXor(bcc_last.s, bcc_last.t))
           /\ bcc_last.s = bcc_last.t => bcc_last.rst = bcc_last.r
           /\ ResidualClass(bcc_last.rs) = ResidualClass(bcc_last.r)
           /\ ResidualClass(bcc_last.rst) = ResidualClass(bcc_last.r)
    /\ (bcc_last.op = "chain_apply_symmetry" /\ bcc_last.origin # None
            /\ bcc_last.first = bcc_last.s) =>
           chain = bcc_last.origin

\* Residual 5 was moved by symmetry 1 and then by symmetry 2, to 6.
ResidualMovedByBothSymmetries ==
    /\ bcc_last.op = "apply_symmetry"
    /\ bcc_last.r = 5 /\ bcc_last.s = 1 /\ bcc_last.t = 2
    /\ bcc_last.rst = 6

\* A Chain of several residuals was moved twice by symmetry 3.
ChainMovedTwice ==
    /\ bcc_last.op = "chain_apply_symmetry"
    /\ bcc_last.origin # None
    /\ bcc_last.first = 3 /\ bcc_last.s = 3
    /\ Len(chain.residuals) >= 2
    /\ bcc_last.self # chain

(***************************************************************************)
(* SpecQuantizer: a digital tree is given to from_digital, and the         *)
(* analogue tree it returns to to_digital; or an analogue tree of the      *)
(* caller's is given to to_digital.                                        *)
(***************************************************************************)
QuantOrders == 0..2

\* 0.5 (the low of tests::round_trip), 0, -1, 3/4, 5 and 100.
QuantLows ==
    {Dyadic(1, 1), Dyadic(0, 0), Dyadic(-1, 0), Dyadic(3, 2), Dyadic(5, 0), Dyadic(100, 0)}

\* ShiftedBCC::new of a lattice point.
Point(v, h, c) == ShiftedBCC_new(v, h, c).val

Leaves == <<Leaf, Leaf, Leaf, Leaf>>

\* `digital` of tests::round_trip.
TestTree ==
    Tree_branch(Point(Dyadic(2, 0), Dyadic(-1, 0), Dyadic(-1, 1)),
                <<Leaf, Leaf, Leaf,
                  Tree_branch(Point(Dyadic(1, 0), Dyadic(-2, 0), Dyadic(1, 1)), Leaves)>>)

\* Trees of up to three levels of Branches, of short and of long payloads.
DigitalTrees ==
    {Leaf,
     TestTree,
     Tree_branch(Point(Dyadic(1, 0), Dyadic(0, 0), Dyadic(1, 1)), Leaves),
     Tree_branch(Point(Dyadic(0, 0), Dyadic(-1, 0), Dyadic(-1, 1)), Leaves),
     Tree_branch(ShiftedBCC(-300, 20, 4), Leaves),
     Tree_branch(ShiftedBCC(0, 0, 0),
                 <<Tree_branch(ShiftedBCC(-1, -1, -1), Leaves),
                   Tree_branch(ShiftedBCC(-2, 0, 0), Leaves),
                   Tree_branch(ShiftedBCC(-1, 1, -1), Leaves),
                   Tree_branch(ShiftedBCC(0, 0, 0), Leaves)>>),
     Tree_branch(ShiftedBCC(7, -9, 31),
                 <<TestTree, Leaf,
                   Tree_branch(ShiftedBCC(2001, 5, -3),
                               <<Leaf, Tree_branch(ShiftedBCC(-8, 6, 0), Leaves), Leaf, Leaf>>),
                   Leaf>>)}

\* Payloads of analogue trees: [v, h, c].
Quarter(n) == Dyadic(n, 2)
ZeroVHC == <<Dyadic(0, 0), Dyadic(0, 0), Dyadic(0, 0)>>
\* 110.25: more than 32767 tolerances where the tolerance is the least one,
\* 0.001 / (3 * cbrt(0.001)) = 1 / 300.
FarVHC == <<Quarter(441), Dyadic(0, 0), Dyadic(0, 0)>>

\* A payload for which, at low 100 and order 0, the two norms that
\* to_digital_inner compares come out equal.
TiedVHC == <<Dyadic(2585247, 19), Dyadic(0, 0), Dyadic(-3712479, 22)>>

\* Analogue trees of up to three levels of Branches: blank ones, ones whose
\* payload is below and above the tolerance, and ones with a payload beyond
\* the 16-bit range of the lattice.
AnalogueTrees ==
    {Leaf,
     Tree_branch(ZeroVHC, Leaves),
     Tree_branch(FarVHC, Leaves),
     Tree_branch(<<Quarter(2), Quarter(-1), Dyadic(1, 3)>>, Leaves),
     Tree_branch(<<Dyadic(3, 0), Dyadic(-2, 0), Quarter(6)>>,
                 <<Tree_branch(ZeroVHC, Leaves),
                   Tree_branch(FarVHC, Leaves),
                   Tree_branch(<<Quarter(2), Quarter(1), Dyadic(0, 0)>>,
                               <<Leaf,
                                 Tree_branch(<<Dyadic(8, 0), Dyadic(1, 0), Dyadic(1, 0)>>,
                                             Leaves),
                                 Leaf, Leaf>>),
                   Leaf>>),
     Tree_branch(ZeroVHC,
                 <<Tree_branch(<<Dyadic(6, 0), Dyadic(0, 0), Dyadic(0, 0)>>, Leaves),
                   Leaf, Leaf, Leaf>>),
     Tree_branch(TiedVHC, Leaves)}

InitQuantizer ==
    /\ overflow_checks \in BOOLEAN
    /\ cbrt_up \in BOOLEAN
    /\ digital \in [order : QuantOrders, low : QuantLows, tree : DigitalTrees]
    /\ analogue = None
    /\ quant_last = [op |-> "none"]
    /\ IdleInterval /\ IdleCoder /\ IdleBits /\ IdlePath /\ IdleHaar /\ IdlePyramid
    /\ IdleBCC

QuantUnchanged ==
    UNCHANGED <<overflow_checks, interval_vars, coder_vars, bits_vars, path_vars,
                haar_vars, pyramid_vars, bcc_vars, cbrt_up, digital>>

\* from_digital(order, low, &tree).
FromDigital ==
    /\ quant_last.op = "none"
    /\ analogue' = from_digital(digital.order, digital.low, digital.tree, cbrt_up)
    /\ quant_last' = [op |-> "from_digital"]
    /\ QuantUnchanged

\* to_digital(order, low, &analogue).
ToDigital ==
    /\ quant_last.op = "from_digital"
    /\ quant_last' = [op |-> "to_digital",
                      ret |-> to_digital(digital.order, digital.low, analogue, cbrt_up)]
    /\ UNCHANGED analogue
    /\ QuantUnchanged

\* to_digital(order, low, &tree) of a tree of the caller's; what
\* to_digital_inner returned is kept whole.  (The digital tree plays no part
\* in this call, so it is made from one of them only.)
ToDigitalInner ==
    /\ quant_last.op = "none"
    /\ digital.tree = Leaf
    /\ \E tree \in AnalogueTrees :
        /\ analogue' = tree
        /\ quant_last' = [op |-> "to_digital_inner",
                          ret |-> to_digital_inner(digital.low, tree,
                                                   gain_of(digital.order), cbrt_up)]
    /\ QuantUnchanged

NextQuantizer ==
    \/ FromDigital
    \/ ToDigital
    \/ ToDigitalInner

SpecQuantizer == InitQuantizer /\ [][NextQuantizer]_vars

(***************************************************************************)
(* C20.  Quantiser round trip: for every order, every low and every        *)
(* digital tree T, to_digital(order, low, from_digital(order, low, T)) is  *)
(* T: no Branch of T is pruned to a Leaf and every payload is recovered    *)
(* exactly.                                                                *)
(***************************************************************************)
QuantizerRoundTrip ==
    quant_last.op = "to_digital" => quant_last.ret = digital.tree

\* A tree of three levels of Branches, one with a payload far from the
\* origin, went through from_digital and to_digital.
DeepTreeRoundTripped ==
    /\ quant_last.op = "to_digital"
    /\ digital.tree # Leaf
    /\ digital.tree.children[3] # Leaf
    /\ digital.tree.children[3].payload.v > 1000
    /\ digital.tree.children[3].children[2] # Leaf
    /\ digital.order = 2
    /\ cbrt_up

(***************************************************************************)
(* C21.  The quantiser never fails: for every analogue tree and every low, *)
(* payloads of more than 32767 tolerances included, to_digital returns a   *)
(* tree whose every node is a Leaf or a Branch with a lattice point; it    *)
(* does not panic on the parity assertion of ShiftedBCC::new_inner or on   *)
(* the conversion to i16.                                                  *)
(***************************************************************************)
RECURSIVE DigitalTree(_)

\* A tree of Leaves and of Branches of lattice points.
DigitalTree(tree) ==
    \/ tree = Leaf
    \/ /\ ~IsPanic(tree)
       /\ EqualParity(tree.payload)
       /\ \A i \in 1..4 : DigitalTree(tree.children[i])

QuantizerNeverFails ==
    quant_last.op = "to_digital_inner" => DigitalTree(quant_last.ret.tree)

\* to_digital was given a payload beyond the 16-bit range and panicked.
QuantizerPanicked ==
    /\ quant_last.op = "to_digital_inner"
    /\ analogue = Tree_branch(FarVHC, Leaves)
    /\ IsPanic(quant_last.ret.tree)

(***************************************************************************)
(* C22.  The rate-distortion decision of to_digital: at every Branch of    *)
(* the input the result is Leaf iff leaf_norm * (1 / tolerance)^2 <        *)
(* branch_error_norm, where leaf_norm is v^2 + h^2 + c^2 of the node plus  *)
(* the leaf_norms its four children returned, and branch_error_norm is the *)
(* err2 of the node's own quantisation plus the error norms its children   *)
(* returned (the leaf error of a pruned child, the branch error of a kept  *)
(* one); otherwise the result is Branch(bcc, quantised children), so that  *)
(* equality keeps the Branch.                                              *)
(***************************************************************************)
\* a + the sum of the `field` of the four results rs, added in order.
Accumulated(a, rs, field) ==
    FAdd(FAdd(FAdd(FAdd(a, rs[1][field]), rs[2][field]), rs[3][field]), rs[4][field])

\* r, returned for a Branch, is what the decision says, the norms being
\* leaf_norm, leaf_error_norm and branch_error_norm.
DecidedBy(r, bcc_, rs, leaf_norm, leaf_error_norm, branch_error_norm) ==
    /\ r.tree = Leaf <=> FLess(leaf_error_norm, branch_error_norm)
    /\ r.tree # Leaf =>
           r.tree = Tree_branch(bcc_, <<rs[1].tree, rs[2].tree, rs[3].tree, rs[4].tree>>)
    /\ r.error_norm = IF r.tree = Leaf THEN leaf_error_norm ELSE branch_error_norm
    /\ r.leaf_norm = leaf_norm

DecidedFrom(r, bcc_, rs, leaf_norm, sensitivity, branch_error_norm) ==
    After(leaf_norm, After(branch_error_norm,
        DecidedBy(r, bcc_, rs, leaf_norm, FMul(leaf_norm, FMul(sensitivity, sensitivity)),
                  branch_error_norm)))

RECURSIVE RateDistortion(_, _, _, _)

\* The decision at the Branch `tree` and at every Branch below it, lows
\* being the lows of its children and q what quantize returned for it.
RateDistortionBelow(low, tree, gain, up, sensitivity, q, lows, rs) ==
    /\ DecidedFrom(to_digital_inner(low, tree, gain, up), q.val, rs,
                   Accumulated(norm(tree.payload[1], tree.payload[2], tree.payload[3]),
                               rs, "leaf_norm"),
                   sensitivity,
                   Accumulated(q.err2, rs, "error_norm"))
    /\ \A i \in 1..4 : RateDistortion(lows[i], tree.children[i], FDouble(gain), up)

RateDistortionOf(low, tree, gain, up, sensitivity, q, lows) ==
    RateDistortionBelow(low, tree, gain, up, sensitivity, q, lows,
                        <<to_digital_inner(lows[1], tree.children[1], FDouble(gain), up),
                          to_digital_inner(lows[2], tree.children[2], FDouble(gain), up),
                          to_digital_inner(lows[3], tree.children[3], FDouble(gain), up),
                          to_digital_inner(lows[4], tree.children[4], FDouble(gain), up)>>)

RateDistortionAt(low, tree, gain, up, tolerance_, sensitivity, q) ==
    After(q.err2,
          RateDistortionOf(low, tree, gain, up, sensitivity, q,
                           child_lows(low, dequantized(tolerance_, q.val))))

RateDistortionWith(low, tree, gain, up, tolerance_, sensitivity) ==
    After(sensitivity,
          RateDistortionAt(low, tree, gain, up, tolerance_, sensitivity,
                           ShiftedBCC_quantize(FMul(sensitivity, tree.payload[1]),
                                               FMul(sensitivity, tree.payload[2]),
                                               FMul(sensitivity, tree.payload[3]))))

RateDistortionUnder(low, tree, gain, up, tolerance_) ==
    After(tolerance_,
          RateDistortionWith(low, tree, gain, up, tolerance_, FRecip(tolerance_)))

RateDistortion(low, tree, gain, up) ==
    \/ tree = Leaf
    \/ After(low, After(gain,
           RateDistortionUnder(low, tree, gain, up, tolerance(FMul(low, gain), up))))

RateDistortionDecision ==
    (quant_last.op = "to_digital_inner" /\ ~IsPanic(quant_last.ret.tree))
        => RateDistortion(digital.low, analogue, gain_of(digital.order), cbrt_up)

\* to_digital was given a Branch for which the two norms are equal and kept
\* it.
TieKeptTheBranch ==
    /\ quant_last.op = "to_digital_inner"
    /\ analogue = Tree_branch(TiedVHC, Leaves)
    /\ quant_last.ret.tree # Leaf
    /\ quant_last.ret.error_norm
           = FMul(quant_last.ret.leaf_norm,
                  FMul(FRecip(tolerance(FMul(digital.low, gain_of(digital.order)), cbrt_up)),
                       FRecip(tolerance(FMul(digital.low, gain_of(digital.order)), cbrt_up))))

(***************************************************************************)
(* C23.  The emission protocol of Writer::write: each renormalisation into *)
(* LOWER emits exactly one 0 bit followed by middle_count 1 bits and       *)
(* resets middle_count to 0; each renormalisation into UPPER emits one 1   *)
(* bit followed by middle_count 0 bits and resets middle_count to 0; each  *)
(* renormalisation into MIDDLE emits nothing and adds exactly 1 to         *)
(* middle_count; and when write returns, the working interval is contained *)
(* in none of LOWER, UPPER and MIDDLE.                                     *)
(***************************************************************************)
\* bits, then one `first`, then count times its inverse.
Emitted(bits, first, count) ==
    SubSeq([k \in 1..(Len(bits) + 1 + count) |->
               IF k <= Len(bits) THEN bits[k] ELSE IF k = Len(bits) + 1 THEN first ELSE ~first],
           1, Len(bits) + 1 + count)

\* x = [unfair, bits, middle_count] after one renormalisation into LOWER or
\* UPPER, which emits `first`.
RenormalisedEnd(x, half_, first) ==
    [unfair |-> grow(x.unfair, half_).val,
     bits |-> Emitted(x.bits, first, x.middle_count),
     middle_count |-> 0]

\* x after one renormalisation into MIDDLE.
RenormalisedMiddle(x) ==
    [unfair |-> grow(x.unfair, MIDDLE).val,
     bits |-> x.bits,
     middle_count |-> x.middle_count + 1]

RECURSIVE RenormalisedEnds(_)

\* x after the renormalisations into LOWER and UPPER that Writer::write
\* makes from it.
RenormalisedEnds(x) ==
    IF contains(LOWER, x.unfair) THEN RenormalisedEnds(RenormalisedEnd(x, LOWER, FALSE))
    ELSE IF contains(UPPER, x.unfair) THEN RenormalisedEnds(RenormalisedEnd(x, UPPER, TRUE))
    ELSE x

RECURSIVE RenormalisedMiddles(_)

\* x after the renormalisations into MIDDLE that Writer::write makes from it.
RenormalisedMiddles(x) ==
    IF contains(MIDDLE, x.unfair) THEN RenormalisedMiddles(RenormalisedMiddle(x)) ELSE x

\* The interval that Writer::write(model, data) keeps of w.unfair, with the
\* bits written and the count pending before it.
Subdivided(w, model, data) ==
    [unfair |-> IF data THEN split(w.unfair, model).i1 ELSE split(w.unfair, model).i0,
     bits |-> SubSeq(written(w.inner), 1, Len(written(w.inner))),
     middle_count |-> w.middle_count]

\* The Writer w holds what x says.
Holds(w, x) ==
    /\ w.unfair = x.unfair
    /\ w.middle_count = x.middle_count
    /\ SubSeq(written(w.inner), 1, Len(written(w.inner))) = x.bits

\* The bits and the count of a write that returned are those of its
\* renormalisations.
RenormalisationsEmit ==
    (last.op = "Writer::write" /\ panic = "") =>
        Holds(writer,
              RenormalisedMiddles(RenormalisedEnds(
                  Subdivided(last.before, sent[Len(sent)].model, sent[Len(sent)].data))))

\* When write returns, the working interval lies inside none of the halves.
ReturnsOutsideTheHalves ==
    (last.op = "Writer::write" /\ panic = "") =>
        /\ ~includes(LOWER, writer.unfair)
        /\ ~includes(UPPER, writer.unfair)
        /\ ~includes(MIDDLE, writer.unfair)

EmissionProtocol == RenormalisationsEmit /\ ReturnsOutsideTheHalves

\* The same of Interval::contains as it is coded.
ReturnsUngrowable ==
    (last.op = "Writer::write" /\ panic = "") =>
        /\ ~contains(LOWER, writer.unfair)
        /\ ~contains(UPPER, writer.unfair)
        /\ ~contains(MIDDLE, writer.unfair)

\* A write renormalised into UPPER with a count pending from an earlier
\* renormalisation into MIDDLE.
PendingEmittedAfterOne ==
    /\ last.op = "Writer::write" /\ panic = ""
    /\ last.before.middle_count > 0
    /\ contains(UPPER, Subdivided(last.before, sent[Len(sent)].model,
                                  sent[Len(sent)].data).unfair)

(***************************************************************************)
(* C24.  Chain::from_bcc terminates for every lattice point: following     *)
(* P := P.arrow().0 from any lattice point reaches a fixed point of arrow  *)
(* after finitely many steps, with no cycle of period greater than 1: each *)
(* step from a point that is not fixed strictly decreases the squared norm *)
(* of the point.                                                           *)
(***************************************************************************)
\* Four times the squared norm of the point p.
Norm4(p) == Square(2 * p.v + 2) + Square(2 * p.h) + Square(2 * p.c + 1)

\* n + 1, or -1 for no number.
Following(n) == IF n < 0 THEN -1 ELSE n + 1

RECURSIVE Descent(_)

\* The number of arrows from p to a fixed point, each to a point of
\* strictly smaller norm; -1 if an arrow panics or does not decrease the
\* norm.
DescentAlong(p, a) ==
    IF a.panic # "" THEN -1
    ELSE IF a.b = p THEN 0
    ELSE IF Norm4(a.b) >= Norm4(p) THEN -1
    ELSE Following(Descent(a.b))

Descent(p) == DescentAlong(p, ShiftedBCC_arrow(p))

FromBccTerminates ==
    bcc_last.op = "from_bcc" =>
        /\ bcc_last.panic = ""
        /\ Descent(bcc) >= 0
        /\ Len(chain.residuals) = Descent(bcc)

\* from_bcc followed twelve arrows or more from a point far from the
\* origin.
FarPointDescended ==
    /\ bcc_last.op = "from_bcc"
    /\ Norm4(bcc) > 4 * Square(8000)
    /\ Descent(bcc) >= 12

(***************************************************************************)
(* C25.  Interval::half is split with a fair model: for every valid        *)
(* Interval I, I.half() returns the pair of Intervals that                 *)
(* I.split(Split::new(0.5)) returns, it bisects I at its midpoint, and its *)
(* arithmetic and its assertions never fail (for I = WHOLE and for         *)
(* Intervals with above > below in particular).                            *)
(***************************************************************************)
\* Split::new(0.5): (SCALE as f64 * 0.5).round() as u32.
FairSplit == new_inner(Pow2(31, 2))

HalfIsFairSplit ==
    iv_out.op = "half" =>
        /\ iv_out.ret.panic = ""
        /\ iv_out.ret.i0 = split(iv_a, FairSplit).i0
        /\ iv_out.ret.i1 = split(iv_a, FairSplit).i1
        /\ MeetsAt(iv_a, iv_out.ret, SplitPoint(iv_a, FairSplit))

\* half of WHOLE returned two Intervals.
HalfOfWholeReturned ==
    /\ iv_out.op = "half"
    /\ iv_a = WHOLE
    /\ iv_out.ret.panic = ""

(***************************************************************************)
(* C26.  For any sequence of Writer::write calls, of any bits and any      *)
(* Splits, no assertion fails and no integer arithmetic overflows: every   *)
(* Interval built has below + above < 2^32, the check of split that        *)
(* below + above wraps to 0 holds, the 64-bit intermediate of              *)
(* divide_by_scale does not overflow, and grow is only called on an        *)
(* Interval that its half contains.                                        *)
(***************************************************************************)
WriteNeverFails ==
    last.op = "Writer::write" => panic = ""

\* A second write failed.
SecondWriteFailed ==
    /\ last.op = "Writer::write"
    /\ Len(sent) = 2
    /\ panic # ""

(***************************************************************************)
(* C27.  The representation of a BitString is canonical in every reachable *)
(* state: after any pushes and pops, bit is in 0..=63 and every bit of     *)
(* last_word at a position >= bit is zero, so that two BitStrings holding  *)
(* the same bits are equal under == (and hash equally) whatever pushes and *)
(* pops made them.                                                         *)
(***************************************************************************)
\* The one BitString with bit in 0..=63 and no bit of last_word set at or
\* above it that holds the bits of the list s.
Canonical(s) ==
    [words |-> [w \in 1..(Len(s) \div WordBits) |->
                   {k \in 0..(WordBits - 1) : s[WordBits * (w - 1) + k + 1]}],
     last_word |-> {k \in 0..((Len(s) % WordBits) - 1) :
                       s[WordBits * (Len(s) \div WordBits) + k + 1]},
     bit |-> Len(s) % WordBits]

BitStringIsCanonical ==
    /\ bs.bit \in 0..63
    /\ \A k \in bs.last_word : k < bs.bit
    /\ bs.bit = Canonical(bv).bit
    /\ bs.last_word = Canonical(bv).last_word
    /\ Len(bs.words) = Len(Canonical(bv).words)
    /\ \A w \in 1..Len(bs.words) : bs.words[w] = Canonical(bv).words[w]

\* A pop took a set bit out of a word that had been completed, after more
\* than a word of set bits had been pushed and popped again.
SetBitPoppedFromFullWord ==
    /\ bs_last.op = "pop"
    /\ bs_last.ret = "Some(true)"
    /\ Len(bv) = 63
    /\ bs.words = <<>>

(***************************************************************************)
(* C28.  The symmetries are automorphisms of the lattice that commute with *)
(* the decomposition into a Chain: for every lattice point P and every     *)
(* symmetry s, Chain::from_bcc(P).apply_symmetry(s).to_bcc() is a lattice  *)
(* point, the image of P under the linear map of s ((v, h, c) ->           *)
(* (h, v, -c) for tag bit 0, (v, h, c) -> (-h, -v, -c) for tag bit 1,      *)
(* their composition for tag 3), and Chain::from_bcc of that image is      *)
(* Chain::from_bcc(P).apply_symmetry(s).                                   *)
(***************************************************************************)
\* The image of the point p under the linear map of the symmetry with tag
\* s, in stored coordinates (v - 1, h, c - 0.5).
Image(p, s) ==
    CASE s = 0 -> p
      [] s = 1 -> ShiftedBCC(p.h - 1, p.v + 1, 0 - p.c - 1)
      [] s = 2 -> ShiftedBCC(0 - p.h - 1, 0 - p.v - 1, 0 - p.c - 1)
      [] s = 3 -> ShiftedBCC(0 - p.v - 2, 0 - p.h, p.c)

\* to_bcc was just applied to the Chain that from_bcc made of the point
\* before, moved by the symmetry s.
MovedBy(s) ==
    /\ bcc_last.op = "to_bcc"
    /\ bcc_last.before # None
    /\ chain = Chain_apply_symmetry(Chain_from_bcc(bcc_last.before).val, s)

SymmetriesAreAutomorphisms ==
    \A s \in ALL_SYMMETRIES :
        MovedBy(s) =>
            /\ bcc_last.panic = ""
            /\ EqualParity(bcc)
            /\ bcc = Image(bcc_last.before, s)
            /\ Chain_from_bcc(Image(bcc_last.before, s)) = [panic |-> "", val |-> chain]

\* A point far from the origin was turned into a long Chain, moved by
\* symmetry 1 and turned back into a point.
FarPointMoved ==
    /\ MovedBy(1)
    /\ Len(chain.residuals) >= 10
    /\ bcc # bcc_last.before

(***************************************************************************)
(* C29.  In every Chain that Chain::from_bcc returns with at least one     *)
(* residual, the most significant residual (residuals.last()) differs from *)
(* last_residual, the residual of the fixed point the Chain ends at.       *)
(***************************************************************************)
\* Chain::from_bcc has just returned a Chain.
FromBccReturned ==
    /\ bcc_last.op = "from_bcc"
    /\ bcc_last.panic = ""
    /\ chain # None

LastDiffersFromFixedPoint ==
    FromBccReturned /\ chain.residuals # <<>> =>
        chain.residuals[Len(chain.residuals)] # chain.last_residual

\* from_bcc returned a Chain of one residual: the point is one arrow away
\* from a fixed point.
OneArrowFromFixedPoint ==
    /\ FromBccReturned
    /\ Len(chain.residuals) = 1
    /\ ShiftedBCC_arrow(bcc).b # bcc
    /\ ShiftedBCC_arrow(ShiftedBCC_arrow(bcc).b).b = ShiftedBCC_arrow(bcc).b

(***************************************************************************)
(* C30.  Quantisation only prunes and dequantisation preserves shape: the  *)
(* tree to_digital returns has a Branch only at paths where its input has  *)
(* a Branch (a Leaf input gives a Leaf, and nothing survives below a       *)
(* pruned node), and the tree from_digital returns has a Branch at exactly *)
(* the paths where its digital input has a Branch and a Leaf exactly where *)
(* it has a Leaf.                                                          *)
(***************************************************************************)
RECURSIVE Prunes(_, _)

\* `out` has a Branch only at paths where `in` has a Branch.
Prunes(out, in) ==
    \/ out = Leaf
    \/ /\ in # Leaf
       /\ \A i \in 1..4 : Prunes(out.children[i], in.children[i])

RECURSIVE SameShape(_, _)

\* `out` has a Branch exactly at the paths where `in` has a Branch.
SameShape(out, in) ==
    IF in = Leaf THEN out = Leaf
    ELSE /\ out # Leaf
         /\ \A i \in 1..4 : SameShape(out.children[i], in.children[i])

\* What to_digital returned of `analogue`, if the last call was one of
\* to_digital that returned.
ToDigitalReturned ==
    CASE quant_last.op = "to_digital_inner" -> quant_last.ret.tree
      [] quant_last.op = "to_digital" -> quant_last.ret
      [] OTHER -> Panicked("")

ToDigitalPrunes ==
    ~IsPanic(ToDigitalReturned) => Prunes(ToDigitalReturned, analogue)

FromDigitalKeepsShape ==
    quant_last.op \in {"from_digital", "to_digital"} => SameShape(analogue, digital.tree)

PrunesAndKeepsShape == ToDigitalPrunes /\ FromDigitalKeepsShape

\* to_digital kept the root of a tree of three levels and pruned a Branch
\* below it.
BranchPrunedBelowKeptRoot ==
    /\ quant_last.op = "to_digital_inner"
    /\ ~IsPanic(quant_last.ret.tree)
    /\ quant_last.ret.tree # Leaf
    /\ \E i \in 1..4 :
           /\ analogue.children[i] # Leaf
           /\ quant_last.ret.tree.children[i] = Leaf
    /\ \E i \in 1..4 : quant_last.ret.tree.children[i] # Leaf

====
